---- MODULE Spec2Model ----
(***************************************************************************)
(* Model of the meal-planning agent's orchestration, session and memory    *)
(* core: InMemorySessionService (memory/session_service.py), MemoryBank    *)
(* (memory/memory_bank.py), the worker agents (agents/*.py, tools/*.py)    *)
(* and OrchestratorAgent (agents/orchestrator.py).                         *)
(*                                                                         *)
(* Time is an integer clock (one unit = one timeout quantum); datetime.now *)
(* reads it.  A Python dict is a function whose DOMAIN is its key set; a   *)
(* Python list is a sequence; Python None is the record None.  Values of   *)
(* different Python types are records with different field names, so that *)
(* a string and a one-element list of that string are different values.   *)
(***************************************************************************)
EXTENDS Integers, Sequences, FiniteSets, TLC

VARIABLES
    clock,          \* what datetime.now() returns
    sessions,       \* InMemorySessionService.sessions: session_id -> Session
    nextSid,        \* the next fresh uuid4 (ids are never reused)
    preferences,    \* MemoryBank.preferences: user_id -> list of UserPreference
    meal_history,   \* MemoryBank.meal_history: user_id -> list of MealHistory
    disk,           \* the content of the file at MemoryBank.storage_path
    faults,         \* how many storage writes have failed so far
    calls,          \* how many store calls the callers have made so far
    ret,            \* the last call as its caller saw it: operation and result
    model,          \* MealPlannerAgent.model is set (GEMINI_API_KEY was given)
    spoonacular_api_key, \* RecipeSearchTool.spoonacular_api_key is set
    planner,        \* the running MealPlannerAgent.plan_meals call and its model thread
    finder,         \* the running RecipeFinderAgent.find_recipes_for_meals call
    workflow        \* the running OrchestratorAgent.plan_meals call

vars == <<clock, sessions, nextSid, preferences, meal_history, disk, faults, calls, ret,
          model, spoonacular_api_key, planner, finder, workflow>>

-----------------------------------------------------------------------------
(* Bounds of the model *)

MaxClock == 3
MaxSessions == 1
SessionTimeout == 1
MaxCalls == 2
MaxFaults == 1

(* Program constants *)

HistoryCap == 50

-----------------------------------------------------------------------------
(* Values *)

None == [none |-> TRUE]
Str(s) == [str |-> s]
Num(n) == [num |-> n]
List(l) == [list |-> l]
Tuple(l) == [tuple |-> l]

Users == {"u1", "u2"}
SessionIds == 1 .. (MaxSessions + 1)

EmptyDict == [k \in {} |-> None]

\* dict.update(other): the keys of other overwrite, every other key stays
DictUpdate(d, other) ==
    [k \in DOMAIN d \cup DOMAIN other |-> IF k \in DOMAIN other THEN other[k] ELSE d[k]]

\* dict.get(key, default)
DictGet(d, k, default) == IF k \in DOMAIN d THEN d[k] ELSE default

DictDel(d, k) == [j \in DOMAIN d \ {k} |-> d[j]]

-----------------------------------------------------------------------------
(* InMemorySessionService *)

\* Session(...) as create_session builds it
NewSession(sid, user_id, now, initial_context) ==
    [session_id |-> sid, user_id |-> user_id, created_at |-> now,
     last_accessed |-> now, context |-> initial_context, preferences |-> EmptyDict]

create_session(S, sid, user_id, initial_context, now) ==
    LET session == NewSession(sid, user_id, now,
                              IF initial_context = None THEN EmptyDict ELSE initial_context)
    IN  [sessions |-> [s \in DOMAIN S \cup {sid} |-> IF s = sid THEN session ELSE S[s]],
         result |-> session]

delete_session(S, sid) ==
    IF sid \in DOMAIN S
    THEN [sessions |-> DictDel(S, sid), result |-> TRUE]
    ELSE [sessions |-> S, result |-> FALSE]

\* the expiry test of get_session and cleanup_expired_sessions
IsExpiredMutStrict(session, now) == now - session.last_accessed >= SessionTimeout
IsExpired(session, now) == now - session.last_accessed > SessionTimeout

\* a get_session that answers None for an expired session and leaves it stored
GetSessionMutKeepExpired(S, sid, now) ==
    IF sid \notin DOMAIN S
    THEN [sessions |-> S, result |-> None, branch |-> "absent"]
    ELSE IF IsExpired(S[sid], now)
         THEN [sessions |-> S, result |-> None, branch |-> "expired"]
         ELSE LET s == [S[sid] EXCEPT !.last_accessed = now]
              IN  [sessions |-> [S EXCEPT ![sid] = s], result |-> s, branch |-> "live"]
get_session(S, sid, now) ==
    IF sid \notin DOMAIN S
    THEN [sessions |-> S, result |-> None, branch |-> "absent"]
    ELSE IF IsExpired(S[sid], now)
         THEN [sessions |-> delete_session(S, sid).sessions, result |-> None,
               branch |-> "expired"]
         ELSE LET s == [S[sid] EXCEPT !.last_accessed = now]
              IN  [sessions |-> [S EXCEPT ![sid] = s], result |-> s, branch |-> "live"]

\* an update_session_context that puts the mapping in place of the context
UpdateSessionContextMutReplace(S, sid, context_updates, now) ==
    LET got == get_session(S, sid, now)
    IN  IF got.result = None
        THEN [sessions |-> got.sessions, result |-> FALSE]
        ELSE [sessions |-> [got.sessions EXCEPT
                               ![sid].context = context_updates,
                               ![sid].last_accessed = now],
              result |-> TRUE]
update_session_context(S, sid, context_updates, now) ==
    LET got == get_session(S, sid, now)
    IN  IF got.result = None
        THEN [sessions |-> got.sessions, result |-> FALSE]
        ELSE [sessions |-> [got.sessions EXCEPT
                               ![sid].context = DictUpdate(@, context_updates),
                               ![sid].last_accessed = now],
              result |-> TRUE]

\* an update_preferences that stamps the session with its creation time
UpdatePreferencesMutResetAccess(S, sid, prefs, now) ==
    LET got == get_session(S, sid, now)
    IN  IF got.result = None
        THEN [sessions |-> got.sessions, result |-> FALSE]
        ELSE [sessions |-> [got.sessions EXCEPT
                               ![sid].preferences = DictUpdate(@, prefs),
                               ![sid].last_accessed = S[sid].created_at],
              result |-> TRUE]
update_preferences(S, sid, prefs, now) ==
    LET got == get_session(S, sid, now)
    IN  IF got.result = None
        THEN [sessions |-> got.sessions, result |-> FALSE]
        ELSE [sessions |-> [got.sessions EXCEPT
                               ![sid].preferences = DictUpdate(@, prefs),
                               ![sid].last_accessed = now],
              result |-> TRUE]

\* a cleanup_expired_sessions that removes every session it finds
CleanupMutSweepsAll(S, now) ==
    [sessions |-> EmptyDict, result |-> Cardinality(DOMAIN S)]

cleanup_expired_sessions(S, now) ==
    LET expired == {sid \in DOMAIN S : IsExpired(S[sid], now)}
    IN  [sessions |-> [s \in DOMAIN S \ expired |-> S[s]],
         result |-> Cardinality(expired)]

get_user_sessions(S, user_id) ==
    {S[sid] : sid \in {s \in DOMAIN S : S[s].user_id = user_id}}

-----------------------------------------------------------------------------
(* MemoryBank *)

Missing == [missing |-> TRUE]      \* no file at storage_path
Corrupt == [corrupt |-> TRUE]      \* a file json.load cannot parse (a partial write)

\* str(datetime) on the way out, pydantic's datetime parsing on the way in
DateToJson(t) == [iso |-> t]
DateFromJson(j) == j.iso

\* json.dump then json.load of a stored value: a tuple comes back as a list,
\* the JSON-native values come back as they were
JsonValue(v) == IF "tuple" \in DOMAIN v THEN List(v.tuple) ELSE v

PrefToJson(p) ==
    [user_id |-> p.user_id, preference_type |-> p.preference_type,
     value |-> JsonValue(p.value),
     created_at |-> DateToJson(p.created_at),
     last_updated |-> DateToJson(p.last_updated)]

PrefFromJson(j) ==
    [user_id |-> j.user_id, preference_type |-> j.preference_type, value |-> j.value,
     created_at |-> DateFromJson(j.created_at),
     last_updated |-> DateFromJson(j.last_updated)]

HistToJson(h) ==
    [user_id |-> h.user_id, meal_plan |-> h.meal_plan, date |-> DateToJson(h.date),
     feedback |-> h.feedback]

HistFromJson(j) ==
    [user_id |-> j.user_id, meal_plan |-> j.meal_plan, date |-> DateFromJson(j.date),
     feedback |-> j.feedback]

\* the document save_to_disk writes: a complete snapshot of both maps
Snapshot(P, H) ==
    [preferences |-> [u \in DOMAIN P |-> [i \in 1 .. Len(P[u]) |-> PrefToJson(P[u][i])]],
     meal_history |-> [u \in DOMAIN H |-> [i \in 1 .. Len(H[u]) |-> HistToJson(H[u][i])]]]

\* how one write of the file can end: written; open() failed, the old file stays;
\* the write broke off after open() truncated the file
SaveOutcomes == {"ok", "open_failed", "partial"}

\* whether a write of the file raises to the caller of save_to_disk: building
\* the data, open() and json.dump are all inside its try, and the handler
\* only prints (lines 68-82)
SaveRaisesMutFatal(outcome) == outcome # "ok"
SaveRaises(outcome) == FALSE

save_to_disk(P, H, d, outcome) ==
    CASE outcome = "ok" -> Snapshot(P, H)
      [] outcome = "open_failed" -> d
      [] outcome = "partial" -> Corrupt

Unreadable == [unreadable |-> TRUE]   \* a file open() cannot read
\* an entry of a parsed document that UserPreference(**p) or MealHistory(**h)
\* rejects: a field is missing or has the wrong type
Malformed == [malformed |-> TRUE]

\* the order in which the users stand in the documents of this model
FileOrder == <<"u1", "u2">>

\* the place in FileOrder of the first user of the section one of whose
\* entries is rejected, 0 if every entry is accepted
FirstRejected(section) ==
    LET rejected == {k \in 1 .. Len(FileOrder) :
                        /\ FileOrder[k] \in DOMAIN section
                        /\ \E i \in 1 .. Len(section[FileOrder[k]]) :
                              section[FileOrder[k]][i] = Malformed}
    IN  IF rejected = {} THEN 0 ELSE CHOOSE k \in rejected : \A m \in rejected : k <= m

\* the users of the section assigned before the loop over it ends or raises
LoadedUsers(section) ==
    IF FirstRejected(section) = 0 THEN DOMAIN section
    ELSE {FileOrder[k] : k \in 1 .. (FirstRejected(section) - 1)} \cap DOMAIN section

\* json.load raises before anything is assigned; an entry that is rejected
\* raises in the middle of the loops, and the handler only prints: the users
\* assigned until then stay
load_from_disk(d) ==
    IF d = Missing \/ d = Corrupt \/ d = Unreadable
    THEN [preferences |-> EmptyDict, meal_history |-> EmptyDict]
    ELSE [preferences |->
              [u \in LoadedUsers(d.preferences) |->
                  [i \in 1 .. Len(d.preferences[u]) |-> PrefFromJson(d.preferences[u][i])]],
          meal_history |->
              IF FirstRejected(d.preferences) # 0 THEN EmptyDict
              ELSE [u \in LoadedUsers(d.meal_history) |->
                      [i \in 1 .. Len(d.meal_history[u]) |->
                          HistFromJson(d.meal_history[u][i])]]]

\* next((p for p in prefs if p.preference_type == t), None): index of the first match, 0 if none
FirstOfType(prefs, t) ==
    IF \E i \in 1 .. Len(prefs) : prefs[i].preference_type = t
    THEN CHOOSE i \in 1 .. Len(prefs) :
            /\ prefs[i].preference_type = t
            /\ \A j \in 1 .. (i - 1) : prefs[j].preference_type # t
    ELSE 0

AddPreferenceMutAppend(P, user_id, preference_type, value, now) ==
    LET prefs == DictGet(P, user_id, <<>>)
        entry == [user_id |-> user_id, preference_type |-> preference_type,
                  value |-> value, created_at |-> now, last_updated |-> now]
    IN  [u \in DOMAIN P \cup {user_id} |-> IF u = user_id THEN Append(prefs, entry) ELSE P[u]]

\* an add_preference that leaves the value of an existing entry as it was
AddPreferenceMutKeepFirst(P, user_id, preference_type, value, now) ==
    LET prefs == DictGet(P, user_id, <<>>)
        i == FirstOfType(prefs, preference_type)
        entry == [user_id |-> user_id, preference_type |-> preference_type,
                  value |-> value, created_at |-> now, last_updated |-> now]
        updated == IF i # 0
                   THEN [prefs EXCEPT ![i].last_updated = now]
                   ELSE Append(prefs, entry)
    IN  [u \in DOMAIN P \cup {user_id} |-> IF u = user_id THEN updated ELSE P[u]]

add_preference(P, user_id, preference_type, value, now) ==
    LET prefs == DictGet(P, user_id, <<>>)
        i == FirstOfType(prefs, preference_type)
        entry == [user_id |-> user_id, preference_type |-> preference_type,
                  value |-> value, created_at |-> now, last_updated |-> now]
        updated == IF i # 0
                   THEN [prefs EXCEPT ![i].value = value, ![i].last_updated = now]
                   ELSE Append(prefs, entry)
    IN  [u \in DOMAIN P \cup {user_id} |-> IF u = user_id THEN updated ELSE P[u]]

get_preferences(P, user_id) ==
    LET prefs == DictGet(P, user_id, <<>>)
        types == {prefs[i].preference_type : i \in 1 .. Len(prefs)}
    IN  \* a dict comprehension: the last entry of a type wins
        [t \in types |->
            prefs[CHOOSE i \in 1 .. Len(prefs) :
                    /\ prefs[i].preference_type = t
                    /\ \A j \in (i + 1) .. Len(prefs) : prefs[j].preference_type # t].value]

get_preference(P, user_id, preference_type) ==
    LET prefs == DictGet(P, user_id, <<>>)
        i == FirstOfType(prefs, preference_type)
    IN  IF i # 0 THEN prefs[i].value ELSE None

\* history[-n:] for n >= 1
LastN(history, n) ==
    IF Len(history) > n THEN SubSeq(history, Len(history) - n + 1, Len(history)) ELSE history

AddMealHistoryMutDropNewest(H, user_id, meal_plan, feedback, now) ==
    LET entry == [user_id |-> user_id, meal_plan |-> meal_plan, date |-> now,
                  feedback |-> feedback]
        appended == Append(DictGet(H, user_id, <<>>), entry)
        kept == IF Len(appended) > HistoryCap THEN SubSeq(appended, 1, HistoryCap)
                ELSE appended
    IN  [u \in DOMAIN H \cup {user_id} |-> IF u = user_id THEN kept ELSE H[u]]

\* an add_meal_history that appends the entry twice
AddMealHistoryMutTwice(H, user_id, meal_plan, feedback, now) ==
    LET entry == [user_id |-> user_id, meal_plan |-> meal_plan, date |-> now,
                  feedback |-> feedback]
        appended == DictGet(H, user_id, <<>>) \o <<entry, entry>>
        kept == IF Len(appended) > HistoryCap THEN LastN(appended, HistoryCap) ELSE appended
    IN  [u \in DOMAIN H \cup {user_id} |-> IF u = user_id THEN kept ELSE H[u]]

add_meal_history(H, user_id, meal_plan, feedback, now) ==
    LET entry == [user_id |-> user_id, meal_plan |-> meal_plan, date |-> now,
                  feedback |-> feedback]
        appended == Append(DictGet(H, user_id, <<>>), entry)
        kept == IF Len(appended) > HistoryCap THEN LastN(appended, HistoryCap) ELSE appended
    IN  [u \in DOMAIN H \cup {user_id} |-> IF u = user_id THEN kept ELSE H[u]]

\* history[-limit:] if limit else history
get_meal_history(H, user_id, limit) ==
    LET history == DictGet(H, user_id, <<>>)
    IN  IF limit # 0 THEN LastN(history, limit) ELSE history

-----------------------------------------------------------------------------
(* The callers of the session store: one action per public method.  Each   *)
(* action is one call, atomic, at the current clock reading.               *)

\* no call of a worker or of the workflow is running
PlannerIdle == [pc |-> "idle", days |-> 0, dietary_restrictions |-> None,
                preferences |-> None, result |-> None, threads |-> 0]

FinderIdle == [pc |-> "idle", meals |-> <<>>, dietary_restrictions |-> None,
               futures |-> <<>>, meal_recipes |-> EmptyDict, result |-> None]

WorkflowIdle == [pc |-> "idle", request |-> None, user_id |-> None, meal_plan |-> None,
                 steps |-> <<>>]

WorkersUnchanged == UNCHANGED <<model, spoonacular_api_key, planner, finder, workflow>>

WorkersIdle ==
    /\ model = FALSE
    /\ spoonacular_api_key = FALSE
    /\ planner = PlannerIdle
    /\ finder = FinderIdle
    /\ workflow = WorkflowIdle

InitialContexts == {[k \in {"user_context"} |-> Str("ctx")]}
ContextUpdates == {[k \in {"test"} |-> Str("value")], [k \in {"test"} |-> Str("other")]}
PreferenceUpdates == {[k \in {"budget"} |-> Num(50)]}

BankUnchanged == UNCHANGED <<preferences, meal_history, disk, faults>>

\* the stores of a process started without a storage file
StoresEmpty ==
    /\ clock = 0
    /\ sessions = EmptyDict
    /\ nextSid = 1
    /\ preferences = EmptyDict
    /\ meal_history = EmptyDict
    /\ disk = Missing
    /\ faults = 0
    /\ calls = 0
    /\ ret = [op |-> "init"]

InitSess == StoresEmpty /\ WorkersIdle

\* time passes between calls
Tick ==
    /\ clock < MaxClock
    /\ clock' = clock + 1
    /\ ret' = [op |-> "tick"]
    /\ UNCHANGED <<sessions, nextSid, preferences, meal_history, disk, faults, calls>>
    /\ WorkersUnchanged

CreateSession(user_id, initial_context) ==
    /\ nextSid <= MaxSessions
    /\ LET r == create_session(sessions, nextSid, user_id, initial_context, clock)
       IN  /\ sessions' = r.sessions
           /\ ret' = [op |-> "create_session", result |-> r.result]
    /\ nextSid' = nextSid + 1
    /\ UNCHANGED <<clock, calls>>
    /\ BankUnchanged
    /\ WorkersUnchanged

GetSession(sid) ==
    /\ LET r == get_session(sessions, sid, clock)
       IN  /\ sessions' = r.sessions
           /\ ret' = [op |-> "get_session", result |-> r.result, branch |-> r.branch]
    /\ UNCHANGED <<clock, nextSid, calls>>
    /\ BankUnchanged
    /\ WorkersUnchanged

UpdateSessionContext(sid, context_updates) ==
    /\ LET r == update_session_context(sessions, sid, context_updates, clock)
       IN  /\ sessions' = r.sessions
           /\ ret' = [op |-> "update_session_context", result |-> r.result]
    /\ UNCHANGED <<clock, nextSid, calls>>
    /\ BankUnchanged
    /\ WorkersUnchanged

UpdatePreferences(sid, prefs) ==
    /\ LET r == update_preferences(sessions, sid, prefs, clock)
       IN  /\ sessions' = r.sessions
           /\ ret' = [op |-> "update_preferences", result |-> r.result]
    /\ UNCHANGED <<clock, nextSid, calls>>
    /\ BankUnchanged
    /\ WorkersUnchanged

DeleteSession(sid) ==
    /\ LET r == delete_session(sessions, sid)
       IN  /\ sessions' = r.sessions
           /\ ret' = [op |-> "delete_session", result |-> r.result]
    /\ UNCHANGED <<clock, nextSid, calls>>
    /\ BankUnchanged
    /\ WorkersUnchanged

CleanupExpiredSessions ==
    /\ LET r == cleanup_expired_sessions(sessions, clock)
       IN  /\ sessions' = r.sessions
           /\ ret' = [op |-> "cleanup_expired_sessions", result |-> r.result]
    /\ UNCHANGED <<clock, nextSid, calls>>
    /\ BankUnchanged
    /\ WorkersUnchanged

GetUserSessions(user_id) ==
    /\ ret' = [op |-> "get_user_sessions", result |-> get_user_sessions(sessions, user_id)]
    /\ UNCHANGED <<clock, sessions, nextSid, calls>>
    /\ BankUnchanged
    /\ WorkersUnchanged

NextSess ==
    \/ Tick
    \/ \E u \in Users, c \in InitialContexts : CreateSession(u, c)
    \/ \E sid \in SessionIds : GetSession(sid)
    \/ \E sid \in SessionIds, c \in ContextUpdates : UpdateSessionContext(sid, c)
    \/ \E sid \in SessionIds, p \in PreferenceUpdates : UpdatePreferences(sid, p)
    \/ \E sid \in SessionIds : DeleteSession(sid)
    \/ CleanupExpiredSessions
    \/ \E u \in Users : GetUserSessions(u)

SpecSess == InitSess /\ [][NextSess]_vars

-----------------------------------------------------------------------------
(* The session service with two sessions in it, of two users, swept by      *)
(* cleanup_expired_sessions while the sessions are used and time passes.    *)

\* create_session was called for u1 and for u2
InitSweep ==
    /\ clock = 0
    /\ sessions = create_session(create_session(EmptyDict, 1, "u1", None, clock).sessions,
                                 2, "u2", [k \in {"user_context"} |-> Str("ctx")],
                                 clock).sessions
    /\ nextSid = 3
    /\ preferences = EmptyDict
    /\ meal_history = EmptyDict
    /\ disk = Missing
    /\ faults = 0
    /\ calls = 0
    /\ ret = [op |-> "init"]
    /\ WorkersIdle

NextSweep ==
    \/ Tick
    \/ \E sid \in 1 .. 2 : GetSession(sid)
    \/ \E sid \in 1 .. 2, c \in ContextUpdates : UpdateSessionContext(sid, c)
    \/ \E sid \in 1 .. 2, p \in PreferenceUpdates : UpdatePreferences(sid, p)
    \/ \E sid \in 1 .. 2 : DeleteSession(sid)
    \/ CleanupExpiredSessions

SpecSweep == InitSweep /\ [][NextSweep]_vars

-----------------------------------------------------------------------------
(* The callers of the memory bank.  A MemoryBank is constructed on whatever *)
(* file an earlier process left at storage_path; then callers add.          *)

PreferenceTypes == {"budget", "dietary_restriction"}
PreferenceValues == {Num(50), Num(75)}
SamplePlans == {[meals |-> <<Str("meal1"), Str("meal2")>>], [meals |-> <<>>]}

\* what an earlier process stored for u1: one preference and HistoryCap - 1 plans,
\* the i-th of them tagged i
PastPlan(i) == [meals |-> <<>>, days |-> i]
PastPreferences ==
    [u \in {"u1"} |->
        <<[user_id |-> "u1", preference_type |-> "budget", value |-> Num(50),
           created_at |-> 0, last_updated |-> 0]>>]
PastHistory ==
    [u \in {"u1"} |->
        [i \in 1 .. (HistoryCap - 1) |->
            [user_id |-> "u1", meal_plan |-> PastPlan(i), date |-> 0, feedback |-> None]]]

InitialDisks == {Missing, Corrupt, Snapshot(PastPreferences, PastHistory)}

SessionsUnchanged == UNCHANGED <<sessions, nextSid>>

InitBank ==
    /\ clock = 0
    /\ sessions = EmptyDict
    /\ nextSid = 1
    /\ disk \in InitialDisks
    /\ preferences = load_from_disk(disk).preferences
    /\ meal_history = load_from_disk(disk).meal_history
    /\ faults = 0
    /\ calls = 0
    /\ ret = [op |-> "init"]
    /\ WorkersIdle

\* one write of the file, which may fail while the fault budget lasts
Save(P, H) ==
    \E outcome \in SaveOutcomes :
        /\ outcome # "ok" => faults < MaxFaults
        /\ disk' = save_to_disk(P, H, disk, outcome)
        /\ faults' = IF outcome = "ok" THEN faults ELSE faults + 1

AddPreference(user_id, preference_type, value) ==
    /\ calls < MaxCalls
    /\ calls' = calls + 1
    /\ preferences' = add_preference(preferences, user_id, preference_type, value, clock)
    /\ Save(preferences', meal_history)
    /\ ret' = [op |-> "add_preference", result |-> None]
    /\ UNCHANGED <<clock, meal_history>>
    /\ SessionsUnchanged
    /\ WorkersUnchanged

AddMealHistory(user_id, meal_plan, feedback) ==
    /\ calls < MaxCalls
    /\ calls' = calls + 1
    /\ meal_history' = add_meal_history(meal_history, user_id, meal_plan, feedback, clock)
    /\ Save(preferences, meal_history')
    /\ ret' = [op |-> "add_meal_history", result |-> None]
    /\ UNCHANGED <<clock, preferences>>
    /\ SessionsUnchanged
    /\ WorkersUnchanged

NextPref ==
    \/ Tick
    \/ \E u \in Users, t \in PreferenceTypes, v \in PreferenceValues : AddPreference(u, t, v)

SpecPref == InitBank /\ [][NextPref]_vars

\* documents json.load parses whose later part has an entry that is rejected:
\* in the history after valid preferences, in the preferences of the second user
RejectedInHistory ==
    [preferences |-> Snapshot(PastPreferences, EmptyDict).preferences,
     meal_history |-> [u \in {"u1"} |-> <<Malformed>>]]
RejectedInPreferences ==
    [preferences |-> [u \in Users |->
                         IF u = "u1" THEN Snapshot(PastPreferences, EmptyDict).preferences[u]
                         ELSE <<Malformed>>],
     meal_history |-> EmptyDict]

LoadDisks ==
    {Missing, Corrupt, Unreadable, Snapshot(PastPreferences, EmptyDict),
     RejectedInHistory, RejectedInPreferences}

\* a file from which nothing can be taken for good
NotLoadable(d) ==
    \/ d \in {Missing, Corrupt, Unreadable}
    \/ FirstRejected(d.preferences) # 0
    \/ FirstRejected(d.meal_history) # 0

InitLoad ==
    /\ clock = 0
    /\ sessions = EmptyDict
    /\ nextSid = 1
    /\ disk \in LoadDisks
    /\ preferences = load_from_disk(disk).preferences
    /\ meal_history = load_from_disk(disk).meal_history
    /\ faults = 0
    /\ calls = 0
    /\ ret = [op |-> "construct"]
    /\ WorkersIdle

\* MemoryBank(storage_path) in a new process, on the file as it is now
Construct ==
    /\ calls < MaxCalls
    /\ calls' = calls + 1
    /\ preferences' = load_from_disk(disk).preferences
    /\ meal_history' = load_from_disk(disk).meal_history
    /\ ret' = [op |-> "construct"]
    /\ UNCHANGED <<clock, disk, faults>>
    /\ SessionsUnchanged
    /\ WorkersUnchanged

NextLoad ==
    \/ Tick
    \/ \E u \in Users, t \in PreferenceTypes, v \in PreferenceValues : AddPreference(u, t, v)
    \/ \E u \in Users, plan \in SamplePlans : AddMealHistory(u, plan, None)
    \/ Construct

SpecLoad == InitLoad /\ [][NextLoad]_vars

\* the limits asked for: none, one, the default of get_user_context and of
\* get_meal_history itself, and more than the store keeps
Limits == {0, 1, 5, 10, HistoryCap + 1}

GetMealHistory(user_id, limit) ==
    /\ ret' = [op |-> "get_meal_history", user_id |-> user_id, limit |-> limit,
               result |-> get_meal_history(meal_history, user_id, limit)]
    /\ UNCHANGED <<clock, calls, preferences, meal_history, disk, faults>>
    /\ SessionsUnchanged
    /\ WorkersUnchanged

NextHist ==
    \/ Tick
    \/ \E u \in Users, plan \in SamplePlans : AddMealHistory(u, plan, None)

SpecHist == InitBank /\ [][NextHist]_vars

\* the history is added to and read
NextRead ==
    \/ Tick
    \/ \E u \in Users, plan \in SamplePlans : AddMealHistory(u, plan, None)
    \/ \E u \in Users, limit \in Limits : GetMealHistory(u, limit)

SpecRead == InitBank /\ [][NextRead]_vars

-----------------------------------------------------------------------------
(* The memory bank written by add_preference and add_meal_history with the  *)
(* values a caller may store: a number, a list and a tuple.                 *)

StoredValues == {Num(50), List(<<Str("Italian")>>), Tuple(<<Num(50), Num(75)>>)}

InitWrite == StoresEmpty /\ WorkersIdle

NextWrite ==
    \/ Tick
    \/ \E t \in PreferenceTypes, v \in StoredValues : AddPreference("u1", t, v)
    \/ \E plan \in SamplePlans : AddMealHistory("u1", plan, None)

SpecWrite == InitWrite /\ [][NextWrite]_vars

-----------------------------------------------------------------------------
(* Python values in the workers: truth value, type tests, list membership, *)
(* substring tests on the strings the workers handle                        *)

Tags == {"none", "str", "num", "list", "tuple"}

\* isinstance(v, dict): a value with .get
IsDict(v) == DOMAIN v \cap Tags = {}

IsStr(v) == "str" \in DOMAIN v

\* len(v) is defined
HasLen(v) == IsDict(v) \/ "list" \in DOMAIN v \/ "str" \in DOMAIN v \/ "tuple" \in DOMAIN v

\* bool(v), as in "if v:"
Truthy(v) ==
    CASE "none" \in DOMAIN v -> FALSE
      [] "str" \in DOMAIN v -> v.str # ""
      [] "num" \in DOMAIN v -> v.num # 0
      [] "list" \in DOMAIN v -> Len(v.list) > 0
      [] "tuple" \in DOMAIN v -> Len(v.tuple) > 0
      [] OTHER -> DOMAIN v # {}

\* x in lst, for a list or None-guarded list argument
In(x, lst) == \E i \in 1 .. Len(lst.list) : lst.list[i] = x

\* the keywords k of the workers' keyword lists with "k in s.lower()", for the
\* strings the workers produce: meal names, ingredient names, recipe titles
KeywordsIn(s) ==
    CASE s = "Scrambled eggs with toast" -> {"eggs"}
      [] s = "Greek yogurt parfait" -> {"yogurt"}
      [] s = "Smoothie bowl" -> {"bowl"}
      [] s = "Fruit salad" -> {"salad"}
      [] s = "Caesar salad" -> {"salad"}
      [] s = "Quinoa bowl" -> {"bowl"}
      [] s = "Lentil soup" -> {"soup"}
      [] s = "Caesar salad (vegan)" -> {"salad"}
      [] s = "Chicken wrap" -> {"chicken"}
      [] s = "Pasta with marinara" -> {"pasta"}
      [] s = "Tofu curry" -> {"curry"}
      [] s = "Stuffed peppers" -> {"pepper"}
      [] s = "Lentil curry" -> {"curry"}
      [] s = "Chickpea curry" -> {"curry"}
      [] s = "Grilled chicken with vegetables" -> {"chicken"}
      [] s = "Salmon with rice" -> {"salmon", "rice"}
      [] s = "salt" -> {"salt"}
      [] s = "pepper" -> {"pepper"}
      [] s = "olive oil" -> {"oil"}
      [] s = "lettuce" -> {"lettuce"}
      [] s = "tomato" -> {"tomato"}
      [] s = "chicken breast" -> {"chicken"}
      [] s = "pasta" -> {"pasta"}
      [] s = "tomato sauce" -> {"tomato"}
      [] s = "garlic" -> {"garlic"}
      [] s = "onion" -> {"onion"}
      [] s = "curry powder" -> {"curry"}
      [] s = "coconut milk" -> {"milk"}
      [] s = "rice" -> {"rice"}
      [] s = "Healthy {} Bowl" -> {"bowl"}
      [] OTHER -> {}

\* an f-string with its arguments
Format(template, args) == [template |-> template, args |-> args]

-----------------------------------------------------------------------------
(* MealPlannerAgent *)

meal_types == <<"breakfast", "lunch", "dinner">>

meal_options ==
    [breakfast |->
        [vegetarian |-> <<"Oatmeal with berries", "Scrambled eggs with toast",
                          "Greek yogurt parfait", "Avocado toast", "Pancakes with fruit">>,
         vegan |-> <<"Oatmeal with berries", "Avocado toast", "Smoothie bowl",
                     "Chia pudding", "Fruit salad">>,
         default |-> <<"Oatmeal with berries", "Scrambled eggs with toast",
                       "Greek yogurt parfait", "Avocado toast">>],
     lunch |->
        [vegetarian |-> <<"Caesar salad", "Vegetable stir-fry", "Quinoa bowl",
                          "Caprese sandwich", "Lentil soup">>,
         vegan |-> <<"Caesar salad (vegan)", "Vegetable stir-fry", "Quinoa bowl",
                     "Hummus wrap", "Lentil soup">>,
         default |-> <<"Caesar salad", "Chicken wrap", "Vegetable stir-fry", "Quinoa bowl">>],
     dinner |->
        [vegetarian |-> <<"Pasta with marinara", "Tofu curry", "Mushroom risotto",
                          "Vegetable lasagna", "Stuffed peppers">>,
         vegan |-> <<"Pasta with marinara", "Tofu curry", "Lentil curry",
                     "Vegetable stir-fry", "Chickpea curry">>,
         default |-> <<"Pasta with marinara", "Grilled chicken with vegetables",
                       "Tofu curry", "Salmon with rice">>]]

\* the pool of each meal type that the restrictions select
selected_meals(dietary_restrictions) ==
    [meal_type \in {"breakfast", "lunch", "dinner"} |->
        IF Truthy(dietary_restrictions)
        THEN IF In(Str("vegan"), dietary_restrictions)
             THEN meal_options[meal_type].vegan
             ELSE IF In(Str("vegetarian"), dietary_restrictions)
                  THEN meal_options[meal_type].vegetarian
                  ELSE meal_options[meal_type].default
        ELSE meal_options[meal_type].default]

\* random.choice(seq), r being what the generator yields for this draw
random_choice(seq, r) == seq[(r % Len(seq)) + 1]

\* the meal of the i-th draw: days outside, meal types inside
MockMeal(i, dietary_restrictions, r) ==
    LET meal_type == meal_types[((i - 1) % 3) + 1]
        meal_name == random_choice(selected_meals(dietary_restrictions)[meal_type], r)
    IN  [day |-> Num(((i - 1) \div 3) + 1), meal_type |-> Str(meal_type),
         name |-> Str(meal_name),
         description |-> Format("A delicious {} for {}", <<meal_name, meal_type>>)]

_generate_mock_meal_plan(days, dietary_restrictions, cuisines, draws) ==
    LET meals == [i \in 1 .. (3 * days) |-> MockMeal(i, dietary_restrictions, draws[i])]
    IN  [meals |-> List(meals),
         summary |-> Format("Generated {}-day meal plan with {} meals", <<days, Len(meals)>>),
         days |-> Num(days),
         dietary_restrictions |->
            IF Truthy(dietary_restrictions) THEN dietary_restrictions ELSE List(<<>>),
         preferences |-> IF Truthy(cuisines) THEN cuisines ELSE List(<<>>)]

\* A model response text, by what _parse_llm_response reads of it: whether it
\* is empty, what json.loads makes of the text between the opening fence
\* (three backquotes and "json", FENCE below) and the next three backquotes,
\* and of the text from the first "{" to the last "}".
Absent == [absent |-> TRUE]       \* the marker is not in the text
Invalid == [invalid |-> TRUE]     \* json.loads raises

ResponseText(text, fenced, braced) == [text |-> text, fenced |-> fenced, braced |-> braced]

_parse_llm_response(response_text, days, draws) ==
    LET fallback == _generate_mock_meal_plan(days, None, None, draws)
    IN  IF response_text.fenced # Absent
        THEN IF response_text.fenced = Invalid THEN fallback ELSE response_text.fenced
        ELSE IF response_text.braced # Absent
             THEN IF response_text.braced = Invalid THEN fallback ELSE response_text.braced
             ELSE fallback

\* plan_meals from the point where the plan is in hand: the meal count is
\* logged, and if that raises the mock plan is returned instead
PlannerReturn(meal_plan, days, dietary_restrictions, cuisines, draws) ==
    IF IsDict(meal_plan) /\ HasLen(DictGet(meal_plan, "meals", List(<<>>)))
    THEN meal_plan
    ELSE _generate_mock_meal_plan(days, dietary_restrictions, cuisines, draws)

\* plan_meals once the model thread has ended with response_text in the queue
\* (None when generate_content raised)
PlannerAfterJoin(response_text, days, dietary_restrictions, cuisines, draws) ==
    IF response_text # None /\ response_text.text # ""
    THEN PlannerReturn(_parse_llm_response(response_text, days, draws),
                       days, dietary_restrictions, cuisines, draws)
    ELSE PlannerReturn(_generate_mock_meal_plan(days, dietary_restrictions, cuisines, draws),
                       days, dietary_restrictions, cuisines, draws)

\* what the random generator yields for the n draws of one mock plan
RandomDraws(n) == {[i \in 1 .. n |-> 0], [i \in 1 .. n |-> 1]}

\* a one-day plan as the prompt asks for it
GoodPlan ==
    [meals |-> List(<<[day |-> Num(1), meal_type |-> Str("breakfast"),
                       name |-> Str("Avocado toast"), description |-> Str("toast")],
                      [day |-> Num(1), meal_type |-> Str("lunch"),
                       name |-> Str("Lentil soup"), description |-> Str("soup")],
                      [day |-> Num(1), meal_type |-> Str("dinner"),
                       name |-> Str("Mushroom risotto"), description |-> Str("risotto")]>>),
     summary |-> Str("One day of meals")]

\* texts the model can answer with
LLMReplies ==
    {ResponseText("", Absent, Absent),
     ResponseText("Sorry, no plan", Absent, Absent),
     ResponseText("{oops", Absent, Invalid),
     ResponseText("FENCE json <GoodPlan> FENCE", GoodPlan, GoodPlan),
     ResponseText("{\"meals\": []}", Absent, [meals |-> List(<<>>)]),
     ResponseText("{\"summary\": \"x\"}", Absent, [summary |-> Str("x")]),
     ResponseText("{\"meals\": [\"Pasta\"]}", Absent, [meals |-> List(<<Str("Pasta")>>)]),
     ResponseText("{\"meals\": null}", Absent, [meals |-> None]),
     ResponseText("FENCE json [1, 2] FENCE", List(<<Num(1), Num(2)>>), Absent)}

\* MealPlannerAgent.plan_meals up to thread.join: without a model the mock
\* plan is returned at once, with one the model thread is started and joined
PlannerStart(pl, days, dietary_restrictions, cuisines, draws) ==
    IF model
    THEN [pc |-> "joining", days |-> days, dietary_restrictions |-> dietary_restrictions,
          preferences |-> cuisines, result |-> None, threads |-> pl.threads + 1]
    ELSE [pc |-> "returned", days |-> days, dietary_restrictions |-> dietary_restrictions,
          preferences |-> cuisines,
          result |-> PlannerReturn(_generate_mock_meal_plan(days, dietary_restrictions,
                                                            cuisines, draws),
                                   days, dietary_restrictions, cuisines, draws),
          threads |-> pl.threads]

OthersUnchanged ==
    UNCHANGED <<clock, sessions, nextSid, preferences, meal_history, disk, faults, calls,
                ret, model, spoonacular_api_key>>

\* the model thread ends within the join timeout: response_text is what it
\* put in the queue, the text of the response or None when the call raised
LLMResponds(response_text) ==
    /\ planner.pc = "joining"
    /\ \E draws \in RandomDraws(3 * planner.days) :
         planner' = [planner EXCEPT
                        !.pc = "returned",
                        !.result = PlannerAfterJoin(response_text, planner.days,
                                                    planner.dietary_restrictions,
                                                    planner.preferences, draws),
                        !.threads = @ - 1]
    /\ OthersUnchanged
    /\ UNCHANGED <<finder, workflow>>

\* generate_content (or reading response.text) raises in the model thread
LLMRaises == LLMResponds(None)

\* thread.join(timeout=5) returns with the thread still alive
JoinTimeout ==
    /\ planner.pc = "joining"
    /\ \E draws \in RandomDraws(3 * planner.days) :
         planner' = [planner EXCEPT
                        !.pc = "returned",
                        !.result = PlannerReturn(
                                       _generate_mock_meal_plan(planner.days,
                                           planner.dietary_restrictions,
                                           planner.preferences, draws),
                                       planner.days, planner.dietary_restrictions,
                                       planner.preferences, draws)]
    /\ OthersUnchanged
    /\ UNCHANGED <<finder, workflow>>

\* a late model thread whose text takes the place of the plan in hand
LLMLateMutOverwrites ==
    /\ planner.threads > (IF planner.pc = "joining" THEN 1 ELSE 0)
    /\ planner' = [planner EXCEPT !.threads = @ - 1, !.result = GoodPlan]
    /\ OthersUnchanged
    /\ UNCHANGED <<finder, workflow>>

\* a model thread that was given up on ends: its queue, local to the call
\* that started it, has no reader
LLMLate ==
    /\ planner.threads > (IF planner.pc = "joining" THEN 1 ELSE 0)
    /\ planner' = [planner EXCEPT !.threads = @ - 1]
    /\ OthersUnchanged
    /\ UNCHANGED <<finder, workflow>>

-----------------------------------------------------------------------------
(* RecipeSearchTool and RecipeFinderAgent *)

PoolSize == 5

meat_keywords == {"chicken", "beef", "pork", "salmon", "fish", "meat", "turkey", "lamb"}

\* query.replace("chicken", "tofu") ... .replace("fish", "tofu"), case-sensitive
ReplaceMeat(query) ==
    CASE query = "Grilled chicken with vegetables" -> "Grilled tofu with vegetables"
      [] OTHER -> query

\* query.title() inside a recipe title
Title(query) == [title |-> query]

_get_mock_recipes(query, dietary_restrictions, max_results) ==
    LET has_meat == KeywordsIn(query) \cap meat_keywords # {}
        q == IF /\ Truthy(dietary_restrictions)
                /\ (In(Str("vegan"), dietary_restrictions)
                      \/ In(Str("vegetarian"), dietary_restrictions))
                /\ has_meat
             THEN ReplaceMeat(query) ELSE query
        mock_recipes ==
            <<[id |-> Num(1), title |-> Format("Delicious {}", <<Title(q)>>),
               ready_in_minutes |-> Num(30), servings |-> Num(4)],
              [id |-> Num(2), title |-> Format("Healthy {} Bowl", <<Title(q)>>),
               ready_in_minutes |-> Num(25), servings |-> Num(2)],
              [id |-> Num(3), title |-> Format("Classic {}", <<Title(q)>>),
               ready_in_minutes |-> Num(45), servings |-> Num(6)]>>
    IN  SubSeq(mock_recipes, 1, IF max_results < 3 THEN max_results ELSE 3)

\* what the recipe API answers a search with
ApiResults ==
    <<[id |-> Num(716429), title |-> Str("Spaghetti Bolognese"),
       ready_in_minutes |-> Num(40), servings |-> Num(2)]>>

\* how a search can go: without an API key the mock data is used; with one
\* the API returns recipes, returns none, or fails (HTTP error, timeout)
ApiOutcomes == IF spoonacular_api_key THEN {"results", "empty", "error"} ELSE {"no_key"}

search_recipes(query, dietary_restrictions, max_results, api) ==
    CASE api = "results" -> ApiResults
      [] api = "empty" -> <<>>
      [] api = "error" -> _get_mock_recipes(query, dietary_restrictions, max_results)
      [] api = "no_key" -> _get_mock_recipes(query, dietary_restrictions, max_results)

\* process_meal of a meal that is a dict with a string (or no) name
process_meal(meal, dietary_restrictions, api) ==
    LET meal_name == DictGet(meal, "name", Str(""))
        recipes == search_recipes(meal_name.str, dietary_restrictions, 3, api)
    IN  [meal_name |-> meal_name.str,
         recipe |-> IF Len(recipes) > 0 THEN recipes[1] ELSE None]

FinderResult(meals, meal_recipes) ==
    [meal_recipes |-> meal_recipes,
     total_meals |-> Num(Len(meals)),
     recipes_found |-> Num(Cardinality({k \in DOMAIN meal_recipes : meal_recipes[k] # None}))]

\* find_recipes_for_meals up to the as_completed loop: every meal is submitted
FinderStart(meals, dietary_restrictions) ==
    [pc |-> IF Len(meals) = 0 THEN "returned" ELSE "running",
     meals |-> meals, dietary_restrictions |-> dietary_restrictions,
     futures |-> EmptyDict, meal_recipes |-> EmptyDict,
     result |-> IF Len(meals) = 0 THEN FinderResult(meals, EmptyDict) ELSE None]

\* the futures a pool thread has taken up: PoolSize at first, one more for each
\* one that has ended
Started(fd) == {i \in 1 .. Len(fd.meals) : i <= PoolSize + Cardinality(DOMAIN fd.futures)}

\* the lookup of meal i ends and the as_completed loop takes its future.  For a
\* meal that is no dict, meal.get raises in the pool thread, future.result
\* re-raises it, the handler's own meal.get raises it again, and so does the
\* outer handler's: find_recipes_for_meals raises.
LookupCompleted(fd, i, api) ==
    IF ~IsDict(fd.meals[i])
    THEN [fd EXCEPT !.pc = "raised", !.result = Str("AttributeError")]
    ELSE LET r == process_meal(fd.meals[i], fd.dietary_restrictions, api)
             futures == [j \in DOMAIN fd.futures \cup {i} |->
                            IF j = i THEN r.recipe ELSE fd.futures[j]]
             meal_recipes == [k \in DOMAIN fd.meal_recipes \cup {r.meal_name} |->
                                IF k = r.meal_name THEN r.recipe ELSE fd.meal_recipes[k]]
             last == DOMAIN futures = 1 .. Len(fd.meals)
         IN  [fd EXCEPT !.futures = futures,
                        !.meal_recipes = meal_recipes,
                        !.pc = IF last THEN "returned" ELSE "running",
                        !.result = IF last THEN FinderResult(fd.meals, meal_recipes)
                                   ELSE None]

LookupCompletes(i) ==
    /\ finder.pc = "running"
    /\ i \in Started(finder) \ DOMAIN finder.futures
    /\ \E api \in ApiOutcomes : finder' = LookupCompleted(finder, i, api)
    /\ OthersUnchanged
    /\ UNCHANGED <<planner, workflow>>

-----------------------------------------------------------------------------
(* ShoppingListAgent, ShoppingOptimizerTool and NutritionAnalysisTool.  A   *)
(* dict here does not keep its insertion order, so the lists built by       *)
(* iterating over one (the ingredients, the items of a section) are sets.   *)

_generate_mock_ingredients(meal_name) ==
    LET base_ingredients == {"salt", "pepper", "olive oil"}
        in_name == KeywordsIn(meal_name)
    IN  IF "pasta" \in in_name
        THEN base_ingredients \cup {"pasta", "tomato sauce", "garlic", "onion"}
        ELSE IF "chicken" \in in_name
        THEN base_ingredients \cup {"chicken breast", "vegetables", "herbs"}
        ELSE IF "salad" \in in_name
        THEN base_ingredients \cup {"lettuce", "tomato", "cucumber", "dressing"}
        ELSE IF "curry" \in in_name
        THEN base_ingredients \cup {"curry powder", "coconut milk", "vegetables", "rice"}
        ELSE base_ingredients \cup {"main ingredient", "vegetables", "spices"}

\* the section names in the order of the store_sections dict
section_order == <<"produce", "dairy", "meat", "pantry", "frozen", "bakery", "beverages">>

store_sections ==
    [produce |-> {"lettuce", "tomato", "onion", "garlic", "pepper", "carrot", "celery",
                  "potato", "apple", "banana", "orange"},
     dairy |-> {"milk", "cheese", "yogurt", "butter", "cream", "eggs"},
     meat |-> {"chicken", "beef", "pork", "fish", "turkey", "bacon", "sausage"},
     pantry |-> {"flour", "sugar", "salt", "pepper", "oil", "vinegar", "rice", "pasta",
                 "beans", "canned"},
     frozen |-> {"frozen", "ice cream"},
     bakery |-> {"bread", "bagel", "roll", "croissant"},
     beverages |-> {"juice", "soda", "water", "coffee", "tea"}]

\* the first section, in dict order, one of whose keywords is in the ingredient
SectionOf(ingredient) ==
    LET hits == {i \in 1 .. Len(section_order) :
                    KeywordsIn(ingredient) \cap store_sections[section_order[i]] # {}}
    IN  IF hits = {} THEN "other"
        ELSE section_order[CHOOSE i \in hits : \A j \in hits : i <= j]

_group_by_section(ingredients) ==
    LET section == [i \in ingredients |-> SectionOf(i)]
    IN  [sec \in {section[i] : i \in ingredients} |->
            {i \in ingredients : section[i] = sec}]

\* the cost of one ingredient in cents
ItemCost(ingredient) ==
    LET in_name == KeywordsIn(ingredient)
    IN  IF in_name \cap {"chicken", "beef", "pork", "fish"} # {} THEN 800
        ELSE IF in_name \cap {"cheese", "milk", "yogurt"} # {} THEN 400
        ELSE IF in_name \cap {"lettuce", "tomato", "onion", "pepper"} # {} THEN 200
        ELSE IF in_name \cap {"pasta", "rice", "flour"} # {} THEN 300
        ELSE IF in_name \cap {"bread", "bagel"} # {} THEN 350
        ELSE 300

RECURSIVE SumCosts(_)
SumCosts(ingredients) ==
    IF ingredients = {} THEN 0
    ELSE LET i == CHOOSE x \in ingredients : TRUE
         IN  ItemCost(i) + SumCosts(ingredients \ {i})

_estimate_costs(ingredients) ==
    [total_estimate |-> Num(SumCosts(ingredients)),
     item_costs |-> [i \in ingredients |-> Num(ItemCost(i))],
     currency |-> Str("USD")]

\* the ingredient names are lower case and distinct as they are, so that
\* _normalize_ingredients only removes the repetitions
optimize_shopping_list(ingredients) ==
    LET grouped == _group_by_section(ingredients)
    IN  [items |-> ingredients,
         grouped_by_section |-> grouped,
         total_items |-> Num(Cardinality(ingredients)),
         estimated_cost |-> _estimate_costs(ingredients),
         sections |-> DOMAIN grouped]

generate_shopping_list(meal_recipes) ==
    LET all_ingredients ==
            UNION {_generate_mock_ingredients(meal_name) :
                      meal_name \in {k \in DOMAIN meal_recipes : Truthy(meal_recipes[k])}}
    IN  [shopping_list |-> optimize_shopping_list(all_ingredients),
         total_meals |-> Num(Cardinality(DOMAIN meal_recipes)),
         optimized |-> TRUE]

\* the keywords in meal.get("title", "").lower()
TitleKeywords(title) ==
    IF IsStr(title) THEN KeywordsIn(title.str)
    ELSE KeywordsIn(title.template) \cup KeywordsIn(title.args[1].title)

_estimate_nutrition(meal) ==
    LET title == TitleKeywords(meal.title)
    IN  IF title \cap {"salad", "bowl"} # {}
        THEN [calories |-> 400, protein |-> 20, carbs |-> 40, fat |-> 15]
        ELSE IF title \cap {"pasta", "noodle"} # {}
        THEN [calories |-> 600, protein |-> 20, carbs |-> 80, fat |-> 15]
        ELSE IF title \cap {"chicken", "meat"} # {}
        THEN [calories |-> 550, protein |-> 40, carbs |-> 30, fat |-> 25]
        ELSE IF "soup" \in title
        THEN [calories |-> 300, protein |-> 15, carbs |-> 35, fat |-> 10]
        ELSE [calories |-> 500, protein |-> 25, carbs |-> 50, fat |-> 20]

RECURSIVE SumOf(_, _)
SumOf(meals, field) ==
    IF meals = <<>> THEN 0
    ELSE _estimate_nutrition(Head(meals))[field] + SumOf(Tail(meals), field)

\* the thresholds are 0.8 and 1.2 of 2000, 0.7 of 100 and of 250, 1.3 of 65
_generate_recommendations(calories, protein, carbs, fat) ==
    LET recommendations ==
            (IF calories < 1600 THEN {"more calories"}
             ELSE IF calories > 2400 THEN {"high in calories"} ELSE {})
            \cup (IF protein < 70 THEN {"more protein"} ELSE {})
            \cup (IF carbs * 10 < 1750 THEN {"more carbs"} ELSE {})
            \cup (IF fat * 10 > 845 THEN {"less fat"} ELSE {})
    IN  IF recommendations = {} THEN {"balance looks good"} ELSE recommendations

analyze_meal_nutrition(meals) ==
    LET total == [field \in {"calories", "protein", "carbs", "fat"} |-> SumOf(meals, field)]
    IN  [total_calories |-> Num(total.calories),
         total_protein_g |-> Num(total.protein),
         total_carbs_g |-> Num(total.carbs),
         total_fat_g |-> Num(total.fat),
         meals_analyzed |-> Num(Len(meals)),
         recommendations |-> _generate_recommendations(total.calories, total.protein,
                                                       total.carbs, total.fat)]

-----------------------------------------------------------------------------
(* OrchestratorAgent *)

\* h.date.isoformat()
IsoFormat(t) == [isoformat |-> t]

get_user_context(P, H, user_id) ==
    LET recent == get_meal_history(H, user_id, 5)
    IN  [preferences |-> get_preferences(P, user_id),
         recent_meals |->
            List([i \in 1 .. Len(recent) |->
                    [date |-> IsoFormat(recent[i].date),
                     meals |-> DictGet(recent[i].meal_plan, "meals", List(<<>>)),
                     feedback |-> recent[i].feedback]])]

\* the calls of OrchestratorAgent.plan_meals: session_id, days,
\* dietary_restrictions, preferences, include_nutrition, include_shopping_list
Request(session_id, days, dietary_restrictions, cuisines, nutrition, shopping) ==
    [session_id |-> session_id, days |-> days,
     dietary_restrictions |-> dietary_restrictions, preferences |-> cuisines,
     include_nutrition |-> nutrition, include_shopping_list |-> shopping]

Vegetarian == List(<<Str("vegetarian")>>)
VeganGlutenFree == List(<<Str("vegan"), Str("gluten-free")>>)
Italian == List(<<Str("Italian")>>)

PlanRequests ==
    {Request(sid, 1, None, None, TRUE, TRUE) : sid \in SessionIds}
    \cup {Request(sid, 1, Vegetarian, Italian, FALSE, TRUE) : sid \in SessionIds}
    \cup {Request(sid, 1, VeganGlutenFree, None, TRUE, FALSE) : sid \in SessionIds}

\* the steps of plan_meals that the caller's result is built from
MealsOf(meal_plan) == DictGet(meal_plan, "meals", List(<<>>))

\* the meals of the plan that have a recipe, each with the recipe's fields
meals_with_recipes(meal_plan, recipe_results) ==
    LET meals == MealsOf(meal_plan).list
        meal_recipes == recipe_results.meal_recipes
    IN  SelectSeq([i \in 1 .. Len(meals) |->
                      LET name == DictGet(meals[i], "name", None)
                      IN  IF IsStr(name) THEN DictGet(meal_recipes, name.str, None)
                          ELSE None],
                  LAMBDA recipe : Truthy(recipe))

\* plan_meals from the call to the planner's start (lines 101-119)
PlanMeals(request) ==
    /\ workflow.pc = "idle"
    /\ planner.pc = "idle"
    /\ finder.pc = "idle"
    /\ LET got == get_session(sessions, request.session_id, clock)
       IN  /\ sessions' = got.sessions
           /\ IF got.result = None
              THEN /\ workflow' = [workflow EXCEPT !.pc = "raised", !.request = request]
                   /\ ret' = [op |-> "plan_meals", raised |-> "ValueError",
                              branch |-> got.branch]
                   /\ planner' = planner
              ELSE /\ workflow' = [workflow EXCEPT !.pc = "planning",
                                                   !.request = request,
                                                   !.user_id = got.result.user_id,
                                                   !.steps = <<"planner">>]
                   /\ ret' = ret
                   /\ \E draws \in RandomDraws(3 * request.days) :
                        planner' = PlannerStart(planner, request.days,
                                                request.dietary_restrictions,
                                                request.preferences, draws)
    /\ UNCHANGED <<clock, nextSid, preferences, meal_history, disk, faults, calls,
                   model, spoonacular_api_key, finder>>

\* a plan_meals that starts the recipe lookups without waiting for the planner
FindRecipesMutEarly ==
    /\ workflow.pc = "planning"
    /\ planner.pc \in {"joining", "returned"}
    /\ LET meal_plan == IF planner.pc = "returned" THEN planner.result ELSE EmptyDict
       IN  /\ workflow' = [workflow EXCEPT !.pc = "finding",
                                           !.meal_plan = meal_plan,
                                           !.steps = Append(@, "recipe_finder")]
           /\ finder' = FinderStart(MealsOf(meal_plan).list,
                                    workflow.request.dietary_restrictions)
    /\ planner' = IF planner.pc = "returned"
                  THEN [PlannerIdle EXCEPT !.threads = planner.threads]
                  ELSE planner
    /\ OthersUnchanged

\* the planner has returned: the recipe finder is called (lines 121-128)
FindRecipes ==
    /\ workflow.pc = "planning"
    /\ planner.pc = "returned"
    /\ workflow' = [workflow EXCEPT !.pc = "finding",
                                    !.meal_plan = planner.result,
                                    !.steps = Append(@, "recipe_finder")]
    /\ finder' = FinderStart(MealsOf(planner.result).list,
                             workflow.request.dietary_restrictions)
    /\ planner' = [PlannerIdle EXCEPT !.threads = planner.threads]
    /\ OthersUnchanged

\* add_preference for the first k of the restrictions, one after the other
RECURSIVE AddRestrictions(_, _, _, _, _)
AddRestrictions(P, user_id, restrictions, k, now) ==
    IF k = 0 THEN P
    ELSE add_preference(AddRestrictions(P, user_id, restrictions, k - 1, now),
                        user_id, "dietary_restriction", restrictions[k], now)

\* the writes of the file in their order, each with its outcome
RECURSIVE WriteAll(_, _, _)
WriteAll(writes, outcomes, d) ==
    IF writes = <<>> THEN d
    ELSE WriteAll(Tail(writes), Tail(outcomes),
                  save_to_disk(Head(writes).preferences, Head(writes).meal_history, d,
                               Head(outcomes)))

\* The recipe finder has returned or raised.  If it raised, so does plan_meals.
\* If not, the shopping list and the nutrition analysis are made if asked for,
\* the session context is updated, the plan is added to the history, every
\* restriction and the cuisine preferences are added to the preferences (each
\* add writes the file), and the result is returned (lines 130-199).
Aggregate ==
    /\ workflow.pc = "finding"
    /\ finder.pc \in {"returned", "raised"}
    /\ finder' = FinderIdle
    /\ IF finder.pc = "raised"
       THEN /\ workflow' = [workflow EXCEPT !.pc = "raised"]
            /\ ret' = [op |-> "plan_meals", raised |-> finder.result.str]
            /\ UNCHANGED <<sessions, preferences, meal_history, disk, faults>>
       ELSE LET request == workflow.request
                user_id == workflow.user_id
                meal_plan == workflow.meal_plan
                recipe_results == finder.result
                shopping_list ==
                    IF request.include_shopping_list
                    THEN generate_shopping_list(recipe_results.meal_recipes).shopping_list
                    ELSE None
                nutrition_analysis ==
                    IF request.include_nutrition
                    THEN analyze_meal_nutrition(meals_with_recipes(meal_plan, recipe_results))
                    ELSE None
                restrictions == IF Truthy(request.dietary_restrictions)
                                THEN request.dietary_restrictions.list ELSE <<>>
                history == add_meal_history(meal_history, user_id, meal_plan, None, clock)
                restricted(k) == AddRestrictions(preferences, user_id, restrictions, k, clock)
                added == IF Truthy(request.preferences)
                         THEN add_preference(restricted(Len(restrictions)), user_id,
                                             "cuisine_preferences", request.preferences, clock)
                         ELSE restricted(Len(restrictions))
                writes == <<[preferences |-> preferences, meal_history |-> history]>>
                          \o [k \in 1 .. Len(restrictions) |->
                                 [preferences |-> restricted(k), meal_history |-> history]]
                          \o (IF Truthy(request.preferences)
                              THEN <<[preferences |-> added, meal_history |-> history]>>
                              ELSE <<>>)
                result == [meal_plan |-> meal_plan, recipes |-> recipe_results,
                           shopping_list |-> shopping_list, nutrition |-> nutrition_analysis,
                           session_id |-> request.session_id]
                returned ==
                    [workflow EXCEPT
                        !.pc = "returned",
                        !.steps = @ \o (IF request.include_shopping_list
                                        THEN <<"shopping_list">> ELSE <<>>)
                                    \o (IF request.include_nutrition
                                        THEN <<"nutrition">> ELSE <<>>)
                                    \o <<"update_session_context", "add_meal_history">>
                                    \o [k \in 1 .. Len(restrictions) |-> "add_preference"]
                                    \o (IF Truthy(request.preferences)
                                        THEN <<"add_preference">> ELSE <<>>)]
            IN  /\ sessions' = update_session_context(sessions, request.session_id,
                                   [last_meal_plan |-> meal_plan,
                                    last_recipes |-> recipe_results,
                                    last_shopping_list |-> shopping_list],
                                   clock).sessions
                /\ meal_history' = history
                /\ preferences' = added
                /\ \E raises \in BOOLEAN :
                     /\ workflow' = IF raises THEN [workflow EXCEPT !.pc = "raised"]
                                    ELSE returned
                     /\ ret' = IF raises THEN [op |-> "plan_meals", raised |-> "OSError"]
                               ELSE [op |-> "plan_meals", result |-> result]
                     /\ \E outcomes \in [1 .. Len(writes) -> SaveOutcomes] :
                          LET failed == Cardinality({i \in 1 .. Len(writes) : outcomes[i] # "ok"})
                          IN  /\ raises = (\E i \in 1 .. Len(writes) : SaveRaises(outcomes[i]))
                              /\ failed <= MaxFaults - faults
                              /\ disk' = WriteAll(writes, outcomes, disk)
                              /\ faults' = faults + failed
    /\ UNCHANGED <<clock, nextSid, calls, model, spoonacular_api_key, planner>>

InitialPreferences == {None, [budget |-> Num(50)]}

\* OrchestratorAgent.create_session on the stores S, P and H
orchestrator_create_session(S, P, H, sid, user_id, initial_preferences, now) ==
    LET user_context == get_user_context(P, H, user_id)
        merged == IF Truthy(initial_preferences)
                  THEN [user_context EXCEPT
                           !.preferences = DictUpdate(@, initial_preferences)]
                  ELSE user_context
        r == create_session(S, sid, user_id,
                            [user_context |-> merged, preferences |-> merged.preferences],
                            now)
    IN  [sessions |-> r.sessions, result |-> r.result.session_id]

OrchestratorCreateSession(user_id, initial_preferences) ==
    /\ nextSid <= MaxSessions
    /\ calls < MaxCalls
    /\ calls' = calls + 1
    /\ LET r == orchestrator_create_session(sessions, preferences, meal_history, nextSid,
                                            user_id, initial_preferences, clock)
       IN  /\ sessions' = r.sessions
           /\ ret' = [op |-> "create_session", result |-> r.result]
    /\ nextSid' = nextSid + 1
    /\ UNCHANGED clock
    /\ BankUnchanged
    /\ WorkersUnchanged

\* what earlier plan_meals calls of u1 with 'vegetarian' and 'Italian' and an
\* update of its budget have stored: one entry per type
FlowPreferences ==
    [u \in {"u1"} |->
        <<[user_id |-> "u1", preference_type |-> "budget", value |-> Num(50),
           created_at |-> 0, last_updated |-> 0],
          [user_id |-> "u1", preference_type |-> "dietary_restriction",
           value |-> Str("vegetarian"), created_at |-> 0, last_updated |-> 0],
          [user_id |-> "u1", preference_type |-> "cuisine_preferences",
           value |-> List(<<Str("Italian")>>), created_at |-> 0, last_updated |-> 0]>>]

\* what an earlier process left at storage_path: preferences of u1, none of u2
FlowDisks == {Snapshot(FlowPreferences, EmptyDict)}

OrchestratorPreferences ==
    {[k \in {"budget"} |-> Num(75)],
     [k \in {"budget", "dietary_restriction"} |->
         IF k = "budget" THEN Num(50) ELSE Str("vegan")]}

\* preferences.items(): the keys in the order in which the mapping holds them
ItemOrder == <<"budget", "dietary_restriction">>
Items(mapping) == SelectSeq(ItemOrder, LAMBDA key : key \in DOMAIN mapping)

\* add_preference for the first k items of the mapping, one after the other
RECURSIVE AddItems(_, _, _, _, _)
AddItems(P, user_id, mapping, k, now) ==
    IF k = 0 THEN P
    ELSE add_preference(AddItems(P, user_id, mapping, k - 1, now), user_id,
                        Items(mapping)[k], mapping[Items(mapping)[k]], now)

\* an update_preferences of the orchestrator that leaves the memory bank alone
OrchestratorUpdatePreferencesMutSessionOnly(S, P, sid, prefs, now) ==
    LET got == get_session(S, sid, now)
    IN  IF got.result = None
        THEN [sessions |-> got.sessions, preferences |-> P, result |-> FALSE, adds |-> 0]
        ELSE [sessions |-> update_preferences(got.sessions, sid, prefs, now).sessions,
              preferences |-> P, result |-> TRUE, adds |-> 0]

\* OrchestratorAgent.update_preferences on the stores S and P; adds is the
\* number of add_preference calls made
orchestrator_update_preferences(S, P, sid, prefs, now) ==
    LET got == get_session(S, sid, now)
    IN  IF got.result = None
        THEN [sessions |-> got.sessions, preferences |-> P, result |-> FALSE, adds |-> 0]
        ELSE [sessions |-> update_preferences(got.sessions, sid, prefs, now).sessions,
              preferences |-> AddItems(P, got.result.user_id, prefs, Len(Items(prefs)), now),
              result |-> TRUE, adds |-> Len(Items(prefs))]

OrchestratorUpdatePreferences(sid, prefs) ==
    /\ calls < MaxCalls
    /\ calls' = calls + 1
    /\ LET r == orchestrator_update_preferences(sessions, preferences, sid, prefs, clock)
           user_id == sessions[sid].user_id
           writes == [k \in 1 .. r.adds |->
                         [preferences |-> AddItems(preferences, user_id, prefs, k, clock),
                          meal_history |-> meal_history]]
       IN  /\ sessions' = r.sessions
           /\ preferences' = r.preferences
           /\ ret' = [op |-> "orchestrator_update_preferences", result |-> r.result]
           /\ \E outcomes \in [1 .. r.adds -> SaveOutcomes] :
                LET failed == Cardinality({i \in 1 .. r.adds : outcomes[i] # "ok"})
                IN  /\ failed <= MaxFaults - faults
                    /\ disk' = WriteAll(writes, outcomes, disk)
                    /\ faults' = faults + failed
    /\ UNCHANGED <<clock, nextSid, meal_history>>
    /\ WorkersUnchanged

\* The orchestrator's session and preference calls on a memory bank
\* constructed on the stored file.
NextOrch ==
    \/ Tick
    \/ \E u \in Users, initial \in InitialPreferences : OrchestratorCreateSession(u, initial)
    \/ \E sid \in SessionIds, prefs \in OrchestratorPreferences :
          OrchestratorUpdatePreferences(sid, prefs)

\* the memory bank of the orchestrator was constructed on the file an earlier
\* process left, and no session has been created
InitOrch ==
    /\ clock = 0
    /\ sessions = EmptyDict
    /\ nextSid = 1
    /\ disk \in FlowDisks
    /\ preferences = load_from_disk(disk).preferences
    /\ meal_history = load_from_disk(disk).meal_history
    /\ faults = 0
    /\ calls = 0
    /\ ret = [op |-> "init"]
    /\ WorkersIdle

SpecOrch == InitOrch /\ [][NextOrch]_vars

\* the deployments: no API key is configured (the demonstration mode), or both are
Deployments == {[model |-> FALSE, spoonacular_api_key |-> FALSE],
                [model |-> TRUE, spoonacular_api_key |-> TRUE]}

\* The state in which a client has just created its session: the orchestrator
\* was constructed on the stored file and create_session(user) was called.
InitFlow ==
    /\ clock = 0
    /\ disk \in FlowDisks
    /\ preferences = load_from_disk(disk).preferences
    /\ meal_history = load_from_disk(disk).meal_history
    /\ sessions = orchestrator_create_session(EmptyDict, preferences, meal_history, 1,
                                              "u1", None, clock).sessions
    /\ nextSid = 2
    /\ faults = 0
    /\ calls = 0
    /\ ret = [op |-> "init"]
    /\ \E deployment \in Deployments :
         /\ model = deployment.model
         /\ spoonacular_api_key = deployment.spoonacular_api_key
    /\ planner = PlannerIdle
    /\ finder = FinderIdle
    /\ workflow = WorkflowIdle

\* The plan_meals call has not ended and no worker is at work.  The workers
\* read neither the clock nor the stores: time that passes and a deletion made
\* while one is at work act as if they came just before its result is taken.
Between ==
    /\ workflow.pc \notin {"returned", "raised"}
    /\ planner.pc # "joining"
    /\ finder.pc # "running"

\* One plan_meals call on the session of InitFlow or on an unknown session id,
\* followed up to its end, while time passes and the session is deleted.
NextFlow ==
    \/ Between /\ Tick
    \/ Between /\ \E sid \in SessionIds : DeleteSession(sid)
    \/ \E request \in PlanRequests : PlanMeals(request)
    \/ \E response_text \in LLMReplies : LLMResponds(response_text)
    \/ LLMRaises
    \/ JoinTimeout
    \/ LLMLate
    \/ FindRecipes
    \/ \E i \in 1 .. Len(finder.meals) : LookupCompletes(i)
    \/ Aggregate

SpecFlow == InitFlow /\ [][NextFlow]_vars

-----------------------------------------------------------------------------
(* The callers of the recipe finder alone *)

Meal(day, meal_type, name) ==
    [day |-> Num(day), meal_type |-> Str(meal_type), name |-> Str(name),
     description |-> Str("")]

MealLists ==
    {<<>>,
     <<Meal(1, "lunch", "Quinoa bowl")>>,
     <<Meal(1, "lunch", "Quinoa bowl"), Meal(2, "lunch", "Quinoa bowl")>>,
     <<Meal(1, "lunch", "Chicken wrap"), Meal(1, "dinner", "Tofu curry"),
       Meal(2, "lunch", "Chicken wrap")>>,
     <<Meal(1, "breakfast", "Avocado toast"), Str("Pasta")>>,
     _generate_mock_meal_plan(2, None, None, [i \in 1 .. 6 |-> i]).meals.list}

FinderRestrictions == {None, Vegetarian}

InitFinder ==
    /\ StoresEmpty
    /\ model = FALSE
    /\ spoonacular_api_key \in BOOLEAN
    /\ planner = PlannerIdle
    /\ finder = FinderIdle
    /\ workflow = WorkflowIdle

FindRecipesForMeals(meals, dietary_restrictions) ==
    /\ finder.pc = "idle"
    /\ finder' = FinderStart(meals, dietary_restrictions)
    /\ ret' = [op |-> "find_recipes_for_meals"]
    /\ UNCHANGED <<clock, sessions, nextSid, preferences, meal_history, disk, faults, calls,
                   model, spoonacular_api_key, planner, workflow>>

\* the call ends: the caller has the result, or the exception
FinderReturns ==
    /\ finder.pc \in {"returned", "raised"}
    /\ ret' = IF finder.pc = "returned"
              THEN [op |-> "find_recipes_for_meals", result |-> finder.result]
              ELSE [op |-> "find_recipes_for_meals", raised |-> finder.result.str]
    /\ finder' = FinderIdle
    /\ UNCHANGED <<clock, sessions, nextSid, preferences, meal_history, disk, faults, calls,
                   model, spoonacular_api_key, planner, workflow>>

NextFinder ==
    \/ \E meals \in MealLists, r \in FinderRestrictions : FindRecipesForMeals(meals, r)
    \/ \E i \in 1 .. Len(finder.meals) : LookupCompletes(i)
    \/ FinderReturns

SpecFinder == InitFinder /\ [][NextFinder]_vars

\* the number of meals of the longest list of MealLists
LongestMealList == 6

\* What the scheduling gives.  The caller takes a result that is ready.  A
\* lookup that uses the mock data (no API key) is computation only and ends;
\* one that calls the API waits for the network and may never end.  The
\* as_completed loop has no step of its own for a future that is not done.
FairFinder ==
    /\ WF_vars(FinderReturns)
    /\ \A i \in 1 .. LongestMealList : WF_vars(~spoonacular_api_key /\ LookupCompletes(i))

SpecFinderLive == InitFinder /\ [][NextFinder]_vars /\ FairFinder

-----------------------------------------------------------------------------
(* The callers of MealPlannerAgent.plan_meals: calls made one after the      *)
(* other on one agent, with or without a model.                              *)

PlannerRestrictions == {None, Vegetarian, VeganGlutenFree}
PlannerCuisines == {None, Italian}

InitPlanner ==
    /\ StoresEmpty
    /\ model \in BOOLEAN
    /\ spoonacular_api_key = FALSE
    /\ planner = PlannerIdle
    /\ finder = FinderIdle
    /\ workflow = WorkflowIdle

PlannerPlanMeals(days, dietary_restrictions, cuisines) ==
    /\ planner.pc = "idle"
    /\ calls < MaxCalls
    /\ calls' = calls + 1
    /\ \E draws \in RandomDraws(3 * days) :
         planner' = PlannerStart(planner, days, dietary_restrictions, cuisines, draws)
    /\ UNCHANGED <<clock, sessions, nextSid, preferences, meal_history, disk, faults, ret,
                   model, spoonacular_api_key, finder, workflow>>

\* the call ends: the caller has the plan
PlannerReturns ==
    /\ planner.pc = "returned"
    /\ ret' = [op |-> "planner_plan_meals", days |-> planner.days,
               dietary_restrictions |-> planner.dietary_restrictions,
               preferences |-> planner.preferences, result |-> planner.result]
    /\ planner' = [PlannerIdle EXCEPT !.threads = planner.threads]
    /\ UNCHANGED <<clock, sessions, nextSid, preferences, meal_history, disk, faults, calls,
                   model, spoonacular_api_key, finder, workflow>>

NextPlanner ==
    \/ \E r \in PlannerRestrictions, c \in PlannerCuisines : PlannerPlanMeals(1, r, c)
    \/ \E response_text \in LLMReplies : LLMResponds(response_text)
    \/ LLMRaises
    \/ JoinTimeout
    \/ LLMLate
    \/ PlannerReturns

SpecPlanner == InitPlanner /\ [][NextPlanner]_vars

-----------------------------------------------------------------------------
(* Two callers in add_preference and add_meal_history of one MemoryBank at  *)
(* the same time.  The class takes no lock, so a thread switch can come     *)
(* between any two of a call's reads and writes of the store: each action   *)
(* below is one such read or write.  In this specification workflow holds,  *)
(* for each caller, the position and the locals of its call.                *)

Callers == {1, 2}

CallerIdle == [pc |-> "idle"]

\* the plan that caller c adds to the history
PlanOf(c) == PastPlan(HistoryCap + c)

\* the bank was constructed on no file or on the file of an earlier process
InitRace ==
    /\ clock = 0
    /\ sessions = EmptyDict
    /\ nextSid = 1
    /\ disk \in {Missing, Snapshot(PastPreferences, PastHistory)}
    /\ preferences = load_from_disk(disk).preferences
    /\ meal_history = load_from_disk(disk).meal_history
    /\ faults = 0
    /\ calls = 0
    /\ ret = [op |-> "init"]
    /\ model = FALSE
    /\ spoonacular_api_key = FALSE
    /\ planner = PlannerIdle
    /\ finder = FinderIdle
    /\ workflow = [c \in Callers |-> CallerIdle]

RaceUnchanged ==
    UNCHANGED <<clock, sessions, nextSid, faults, ret, model, spoonacular_api_key,
                planner, finder>>

\* caller c moves to position pc with the locals given
Moves(c, pc, locals) ==
    workflow' = [workflow EXCEPT ![c] = DictUpdate(DictUpdate(@, locals), [k \in {"pc"} |-> pc])]

\* caller c calls add_preference("u1", "budget", value)
CallAddPreference(c, value) ==
    /\ workflow[c].pc = "idle"
    /\ calls < MaxCalls
    /\ calls' = calls + 1
    /\ Moves(c, "pref_test_user", [op |-> "add_preference", value |-> value])
    /\ UNCHANGED <<preferences, meal_history, disk>>
    /\ RaceUnchanged

\* if user_id not in self.preferences (line 93)
PrefTestsUser(c) ==
    /\ workflow[c].pc = "pref_test_user"
    /\ Moves(c, IF "u1" \in DOMAIN preferences THEN "pref_find" ELSE "pref_new_list",
             EmptyDict)
    /\ UNCHANGED <<preferences, meal_history, disk, calls>>
    /\ RaceUnchanged

\* self.preferences[user_id] = [] (line 94)
PrefNewList(c) ==
    /\ workflow[c].pc = "pref_new_list"
    /\ preferences' = [u \in DOMAIN preferences \cup {"u1"} |->
                          IF u = "u1" THEN <<>> ELSE preferences[u]]
    /\ Moves(c, "pref_find", EmptyDict)
    /\ UNCHANGED <<meal_history, disk, calls>>
    /\ RaceUnchanged

\* existing = next(...) (lines 97-100): the place of the entry found, 0 for None
PrefFinds(c) ==
    /\ workflow[c].pc = "pref_find"
    /\ Moves(c, "pref_write", [existing |-> FirstOfType(preferences["u1"], "budget")])
    /\ UNCHANGED <<preferences, meal_history, disk, calls>>
    /\ RaceUnchanged

\* the entry found is overwritten, or a new one is appended (lines 102-115)
PrefWrites(c) ==
    /\ workflow[c].pc = "pref_write"
    /\ LET existing == workflow[c].existing
           entry == [user_id |-> "u1", preference_type |-> "budget",
                     value |-> workflow[c].value, created_at |-> clock,
                     last_updated |-> clock]
       IN  preferences' =
               IF existing # 0
               THEN [preferences EXCEPT !["u1"][existing].value = workflow[c].value,
                                        !["u1"][existing].last_updated = clock]
               ELSE [preferences EXCEPT !["u1"] = Append(@, entry)]
    /\ Moves(c, "save", EmptyDict)
    /\ UNCHANGED <<meal_history, disk, calls>>
    /\ RaceUnchanged

\* caller c calls add_meal_history("u1", PlanOf(c))
CallAddMealHistory(c) ==
    /\ workflow[c].pc = "idle"
    /\ calls < MaxCalls
    /\ calls' = calls + 1
    /\ Moves(c, "hist_test_user", [op |-> "add_meal_history", meal_plan |-> PlanOf(c)])
    /\ UNCHANGED <<preferences, meal_history, disk>>
    /\ RaceUnchanged

\* if user_id not in self.meal_history (line 156)
HistTestsUser(c) ==
    /\ workflow[c].pc = "hist_test_user"
    /\ Moves(c, IF "u1" \in DOMAIN meal_history THEN "hist_append" ELSE "hist_new_list",
             EmptyDict)
    /\ UNCHANGED <<preferences, meal_history, disk, calls>>
    /\ RaceUnchanged

\* self.meal_history[user_id] = [] (line 157)
HistNewList(c) ==
    /\ workflow[c].pc = "hist_new_list"
    /\ meal_history' = [u \in DOMAIN meal_history \cup {"u1"} |->
                           IF u = "u1" THEN <<>> ELSE meal_history[u]]
    /\ Moves(c, "hist_append", EmptyDict)
    /\ UNCHANGED <<preferences, disk, calls>>
    /\ RaceUnchanged

\* self.meal_history[user_id].append(MealHistory(...)) (lines 159-166)
HistAppends(c) ==
    /\ workflow[c].pc = "hist_append"
    /\ meal_history' =
          [meal_history EXCEPT !["u1"] =
              Append(@, [user_id |-> "u1", meal_plan |-> workflow[c].meal_plan,
                         date |-> clock, feedback |-> None])]
    /\ Moves(c, "hist_test_len", EmptyDict)
    /\ UNCHANGED <<preferences, disk, calls>>
    /\ RaceUnchanged

\* if len(...) > 50, the last 50 entries are read (lines 169-170, right side)
HistTestsLen(c) ==
    /\ workflow[c].pc = "hist_test_len"
    /\ IF Len(meal_history["u1"]) > HistoryCap
       THEN Moves(c, "hist_trim", [kept |-> LastN(meal_history["u1"], HistoryCap)])
       ELSE Moves(c, "save", EmptyDict)
    /\ UNCHANGED <<preferences, meal_history, disk, calls>>
    /\ RaceUnchanged

\* self.meal_history[user_id] = the entries read (line 170, the assignment)
HistTrims(c) ==
    /\ workflow[c].pc = "hist_trim"
    /\ meal_history' = [meal_history EXCEPT !["u1"] = workflow[c].kept]
    /\ Moves(c, "save", EmptyDict)
    /\ UNCHANGED <<preferences, disk, calls>>
    /\ RaceUnchanged

\* self.save_to_disk() ends the call (lines 117 and 172)
CallerSaves(c) ==
    /\ workflow[c].pc = "save"
    /\ disk' = save_to_disk(preferences, meal_history, disk, "ok")
    /\ ret' = [op |-> workflow[c].op, caller |-> c, result |-> None]
    /\ Moves(c, "done", EmptyDict)
    /\ UNCHANGED <<clock, sessions, nextSid, preferences, meal_history, faults, calls,
                   model, spoonacular_api_key, planner, finder>>

NextRace ==
    \/ \E c \in Callers, value \in PreferenceValues : CallAddPreference(c, value)
    \/ \E c \in Callers : PrefTestsUser(c)
    \/ \E c \in Callers : PrefNewList(c)
    \/ \E c \in Callers : PrefFinds(c)
    \/ \E c \in Callers : PrefWrites(c)
    \/ \E c \in Callers : CallAddMealHistory(c)
    \/ \E c \in Callers : HistTestsUser(c)
    \/ \E c \in Callers : HistNewList(c)
    \/ \E c \in Callers : HistAppends(c)
    \/ \E c \in Callers : HistTestsLen(c)
    \/ \E c \in Callers : HistTrims(c)
    \/ \E c \in Callers : CallerSaves(c)

SpecRace == InitRace /\ [][NextRace]_vars

-----------------------------------------------------------------------------
(* Two callers in get_session and cleanup_expired_sessions of one session   *)
(* service at the same time, on the session with id 1.  The class takes no  *)
(* lock either.  A caller holds the Session object it read from the store:  *)
(* the object lives on when its id is deleted, and a write to it is seen by *)
(* the store, if it still holds it, and by every caller that holds it.      *)

\* a client created session 1 before the callers start
InitGet ==
    /\ clock = 0
    /\ sessions = create_session(EmptyDict, 1, "u1", None, clock).sessions
    /\ nextSid = 2
    /\ preferences = EmptyDict
    /\ meal_history = EmptyDict
    /\ disk = Missing
    /\ faults = 0
    /\ calls = 0
    /\ ret = [op |-> "init"]
    /\ model = FALSE
    /\ spoonacular_api_key = FALSE
    /\ planner = PlannerIdle
    /\ finder = FinderIdle
    /\ workflow = [c \in Callers |-> CallerIdle]

GetUnchanged ==
    UNCHANGED <<clock, nextSid, preferences, meal_history, disk, faults, model,
                spoonacular_api_key, planner, finder>>

\* session = self.sessions.get(session_id); None is returned at once (lines 76-79)
CallGetSession(c) ==
    /\ workflow[c].pc = "idle"
    /\ calls < MaxCalls
    /\ calls' = calls + 1
    /\ IF 1 \in DOMAIN sessions
       THEN /\ Moves(c, "get_check", [op |-> "get_session", session |-> sessions[1]])
            /\ ret' = ret
       ELSE /\ workflow' = workflow
            /\ ret' = [op |-> "get_session", caller |-> c, result |-> None]
    /\ UNCHANGED sessions
    /\ GetUnchanged

\* if datetime.now() - session.last_accessed > self.session_timeout (line 82)
GetChecks(c) ==
    /\ workflow[c].pc = "get_check"
    /\ Moves(c, IF IsExpired(workflow[c].session, clock) THEN "get_delete" ELSE "get_refresh",
             EmptyDict)
    /\ UNCHANGED <<sessions, calls, ret>>
    /\ GetUnchanged

\* self.delete_session(session_id); return None (lines 83-84)
GetDeletes(c) ==
    /\ workflow[c].pc = "get_delete"
    /\ sessions' = delete_session(sessions, 1).sessions
    /\ workflow' = [workflow EXCEPT ![c] = CallerIdle]
    /\ ret' = [op |-> "get_session", caller |-> c, result |-> None]
    /\ UNCHANGED calls
    /\ GetUnchanged

\* session.last_accessed = datetime.now(); return session (lines 87-88)
GetRefreshes(c) ==
    /\ workflow[c].pc = "get_refresh"
    /\ sessions' = IF 1 \in DOMAIN sessions
                   THEN [sessions EXCEPT ![1].last_accessed = clock]
                   ELSE sessions
    /\ workflow' = [o \in Callers |->
                       IF o = c THEN CallerIdle
                       ELSE IF "session" \in DOMAIN workflow[o]
                            THEN [workflow[o] EXCEPT !.session.last_accessed = clock]
                            ELSE workflow[o]]
    /\ ret' = [op |-> "get_session", caller |-> c,
               result |-> [workflow[c].session EXCEPT !.last_accessed = clock]]
    /\ UNCHANGED calls
    /\ GetUnchanged

\* now = datetime.now(); expired = [...] (lines 150-154)
CallCleanup(c) ==
    /\ workflow[c].pc = "idle"
    /\ calls < MaxCalls
    /\ calls' = calls + 1
    /\ Moves(c, "cleanup_delete",
             [op |-> "cleanup_expired_sessions",
              expired |-> {sid \in DOMAIN sessions : IsExpired(sessions[sid], clock)}])
    /\ UNCHANGED <<sessions, ret>>
    /\ GetUnchanged

\* for sid in expired: del self.sessions[sid]; return len(expired) (lines
\* 156-159).  The del of an id that is no longer stored raises KeyError.
CleanupDeletes(c) ==
    /\ workflow[c].pc = "cleanup_delete"
    /\ LET expired == workflow[c].expired
       IN  /\ sessions' = [sid \in DOMAIN sessions \ expired |-> sessions[sid]]
           /\ ret' = IF expired \subseteq DOMAIN sessions
                     THEN [op |-> "cleanup_expired_sessions", caller |-> c,
                           removed |-> Cardinality(expired)]
                     ELSE [op |-> "cleanup_expired_sessions", caller |-> c,
                           raised |-> "KeyError"]
    /\ workflow' = [workflow EXCEPT ![c] = CallerIdle]
    /\ UNCHANGED calls
    /\ GetUnchanged

\* time passes while the callers are inside their calls
GetTick ==
    /\ clock < MaxClock
    /\ clock' = clock + 1
    /\ UNCHANGED <<sessions, nextSid, preferences, meal_history, disk, faults, calls, ret,
                   model, spoonacular_api_key, planner, finder, workflow>>

NextGet ==
    \/ GetTick
    \/ \E c \in Callers : CallGetSession(c)
    \/ \E c \in Callers : GetChecks(c)
    \/ \E c \in Callers : GetDeletes(c)
    \/ \E c \in Callers : GetRefreshes(c)
    \/ \E c \in Callers : CallCleanup(c)
    \/ \E c \in Callers : CleanupDeletes(c)

SpecGet == InitGet /\ [][NextGet]_vars

-----------------------------------------------------------------------------
(* Claims about plan_meals, checked under SpecFlow *)

\* the session id is unknown, deleted or expired at the time of the call
NotResolvable(S, sid, now) ==
    \/ sid \notin DOMAIN S
    \/ now - S[sid].last_accessed > SessionTimeout

\* the step is the call plan_meals(request): only PlanMeals takes the workflow
\* out of "idle", and it records the request
PlanMealsCalled(request) ==
    /\ workflow.pc = "idle"
    /\ workflow'.pc # "idle"
    /\ workflow'.request = request

\* C1 (as the code has it): plan_meals with a session id that is unknown,
\* deleted or expired raises the 'session not found' ValueError; no planner,
\* recipe finder, shopping list or nutrition step is invoked; the stored
\* preferences, the stored meal history and the file are as before the call;
\* the session store is as before the call except that the session of that id,
\* if it was stored and expired, is removed from it.
C1_NotFoundAbort ==
    [][\A request \in PlanRequests :
          (PlanMealsCalled(request) /\ NotResolvable(sessions, request.session_id, clock)) =>
              /\ ret'.op = "plan_meals"
              /\ "raised" \in DOMAIN ret'
              /\ ret'.raised = "ValueError"
              /\ workflow'.pc = "raised"
              /\ workflow'.steps = <<>>
              /\ planner' = planner
              /\ finder' = finder
              /\ preferences' = preferences
              /\ meal_history' = meal_history
              /\ disk' = disk
              /\ sessions' = DictDel(sessions, request.session_id)
      ]_vars

\* C1 witness: plan_meals was called on the stored session after it had
\* expired; the call raised and the session is gone from the store
C1_Witness ==
    /\ ret.op = "plan_meals"
    /\ "branch" \in DOMAIN ret
    /\ ret.branch = "expired"
    /\ ret.raised = "ValueError"
    /\ workflow.pc = "raised"
    /\ workflow.steps = <<>>
    /\ workflow.request.session_id \notin DOMAIN sessions
    /\ clock > SessionTimeout

\* C1 as stated: a plan_meals call with a session id that is unknown, deleted
\* or expired fails, invokes no step and leaves the session store, the stored
\* preferences and the stored meal history all the same as before the call.
C1_StoresSameAsBefore ==
    [][\A request \in PlanRequests :
          (PlanMealsCalled(request) /\ NotResolvable(sessions, request.session_id, clock)) =>
              /\ workflow'.pc = "raised"
              /\ workflow'.steps = <<>>
              /\ planner' = planner
              /\ finder' = finder
              /\ preferences' = preferences
              /\ meal_history' = meal_history
              /\ sessions' = sessions
      ]_vars

\* C2: a plan_meals call whose session resolved never raises to the caller,
\* whatever the planner, the recipe lookups, the list builder and the nutrition
\* analysis do: it returns a result with a meal plan.  The only call that
\* raises is the one whose session was not found, which ran no step.
C2_OnlyNotFoundRaises ==
    /\ workflow.pc = "raised" =>
          /\ ret.raised = "ValueError"
          /\ workflow.steps = <<>>
    /\ workflow.pc = "returned" =>
          /\ "result" \in DOMAIN ret
          /\ ret.result.meal_plan # None

\* the plan has one breakfast, one lunch and one dinner for each day of 1 .. days
\* and no other meal
IsDayPlan(meal_plan, days) ==
    /\ IsDict(meal_plan)
    /\ "meals" \in DOMAIN meal_plan
    /\ "list" \in DOMAIN meal_plan.meals
    /\ LET meals == meal_plan.meals.list
       IN  /\ Len(meals) = 3 * days
           /\ \A i \in 1 .. Len(meals) :
                 /\ IsDict(meals[i])
                 /\ {"day", "meal_type"} \subseteq DOMAIN meals[i]
                 /\ meals[i].day \in {Num(d) : d \in 1 .. days}
           /\ \A d \in 1 .. days, t \in {"breakfast", "lunch", "dinner"} :
                 Cardinality({i \in 1 .. Len(meals) :
                                 meals[i].day = Num(d) /\ meals[i].meal_type = Str(t)}) = 1

\* C6: whatever the planner's outcome (no model, model success, timeout,
\* error, unparseable or malformed output), the plan that plan_meals returns
\* has exactly 3 * days meals, a breakfast, a lunch and a dinner for each day,
\* each with a day number in 1 .. days.
C6_ThreeMealsPerDay ==
    workflow.pc = "returned" =>
        IsDayPlan(ret.result.meal_plan, workflow.request.days)

\* C9: after a plan_meals call that returned, made with a non-empty list R of
\* restrictions for a session of user u, the value of u's preference
\* 'dietary_restriction' is the list R, and with cuisine preferences P
\* supplied the value of 'cuisine_preferences' is P.
C9_RestrictionsStoredAsList ==
    workflow.pc = "returned" =>
        /\ Truthy(workflow.request.dietary_restrictions) =>
              get_preference(preferences, workflow.user_id, "dietary_restriction")
                  = workflow.request.dietary_restrictions
        /\ Truthy(workflow.request.preferences) =>
              get_preference(preferences, workflow.user_id, "cuisine_preferences")
                  = workflow.request.preferences

\* C10: the shopping list returned by a plan_meals call made with 'vegetarian'
\* among the restrictions and include_shopping_list true has no item in the
\* 'meat' section, that is no item with one of the section's keywords in it,
\* whichever path produced the plan.
C10_VegetarianListHasNoMeat ==
    (/\ workflow.pc = "returned"
     /\ workflow.request.include_shopping_list
     /\ Truthy(workflow.request.dietary_restrictions)
     /\ In(Str("vegetarian"), workflow.request.dietary_restrictions)) =>
        /\ "meat" \notin DOMAIN ret.result.shopping_list.grouped_by_section
        /\ \A item \in ret.result.shopping_list.items :
              KeywordsIn(item) \cap store_sections.meat = {}

-----------------------------------------------------------------------------
(* Claims about find_recipes_for_meals, checked under SpecFinder *)

\* the meals of the call whose own lookup found a recipe
LookupsSucceeded(fd) == {i \in DOMAIN fd.futures : fd.futures[i] # None}

\* C7: a lookup that fails gives None for its own meal only: the call is not
\* aborted, and every meal whose lookup found a recipe has a recipe under its
\* name in the returned meal_recipes.
C7_FailureStaysWithItsMeal ==
    /\ finder.pc # "raised"
    /\ finder.pc = "returned" =>
          \A i \in LookupsSucceeded(finder) :
              LET name == finder.meals[i].name.str
              IN  /\ name \in DOMAIN finder.result.meal_recipes
                  /\ finder.result.meal_recipes[name] # None

\* C8: for every list of meals, lists with repeated meal names included,
\* recipes_found is the number of meals whose lookup found a recipe,
\* total_meals is the length of the list, and their difference is the number
\* of meals whose recipe is absent.
C8_FoundCountsMeals ==
    finder.pc = "returned" =>
        LET succeeded == Cardinality(LookupsSucceeded(finder))
            absent == Cardinality(DOMAIN finder.futures \ LookupsSucceeded(finder))
        IN  /\ finder.result.total_meals = Num(Len(finder.meals))
            /\ finder.result.recipes_found = Num(succeeded)
            /\ finder.result.total_meals.num - finder.result.recipes_found.num = absent


-----------------------------------------------------------------------------
(* Claims about the session store, checked under SpecSess *)

\* C3: get_session on a stored session whose idle time (now - last_accessed)
\* exceeds the timeout removes it and returns None; otherwise it returns the
\* stored session with last_accessed set to the current time.  A session id
\* that has left the store never comes back, and a get on it returns None.
C3_GetSessionExpiry ==
    [][/\ \A sid \in SessionIds :
            GetSession(sid) =>
                /\ (sid \in DOMAIN sessions
                        /\ clock - sessions[sid].last_accessed > SessionTimeout)
                     => (sid \notin DOMAIN sessions' /\ ret'.result = None)
                /\ (sid \in DOMAIN sessions
                        /\ clock - sessions[sid].last_accessed <= SessionTimeout)
                     => /\ sid \in DOMAIN sessions'
                        /\ ret'.result = sessions'[sid]
                        /\ ret'.result.session_id = sid
                        /\ sessions'[sid].last_accessed = clock
                /\ (sid \notin DOMAIN sessions) => ret'.result = None
       /\ \A sid \in SessionIds :
            (sid < nextSid /\ sid \notin DOMAIN sessions) => sid \notin DOMAIN sessions'
      ]_vars

\* C3 witness: a get_session call found a stored session expired and evicted it
C3_Witness ==
    /\ ret.op = "get_session"
    /\ ret.branch = "expired"
    /\ ret.result = None
    /\ nextSid > 1

-----------------------------------------------------------------------------
(* Claims about the memory bank, checked under SpecPref and SpecHist *)

\* the positions of user u's entries of type t
EntriesOfType(P, u, t) ==
    {i \in 1 .. Len(DictGet(P, u, <<>>)) : P[u][i].preference_type = t}

\* C4: after add_preference the store holds at most one entry per (user_id,
\* preference_type); an add for an existing (user, type) overwrites that
\* entry's value and last_updated, keeps its created_at and the number of
\* entries; an add for a new (user, type) appends one entry.
C4_PreferenceUpsert ==
    [][\A u \in Users, t \in PreferenceTypes, v \in PreferenceValues :
          AddPreference(u, t, v) =>
              LET old == DictGet(preferences, u, <<>>)
                  new == preferences'[u]
                  was == EntriesOfType(preferences, u, t)
                  now == EntriesOfType(preferences', u, t)
              IN  /\ \A w \in DOMAIN preferences', tt \in PreferenceTypes :
                        Cardinality(EntriesOfType(preferences', w, tt)) <= 1
                  /\ Cardinality(now) = 1
                  /\ \A i \in now : new[i].value = v /\ new[i].last_updated = clock
                  /\ IF was # {}
                     THEN /\ Len(new) = Len(old)
                          /\ now = was
                          /\ \A i \in now : new[i].created_at = old[i].created_at
                     ELSE /\ Len(new) = Len(old) + 1
                          /\ \A i \in now : new[i].created_at = clock
                  /\ \A i \in 1 .. Len(old) : i \notin was => new[i] = old[i]
                  /\ \A w \in DOMAIN preferences : w # u => preferences'[w] = preferences[w]
      ]_vars

\* C4 witness: 'budget' was added as 50 and later added again as 75: one entry, value 75
C4_Witness ==
    /\ ret.op = "add_preference"
    /\ \E u \in DOMAIN preferences :
         /\ Cardinality(EntriesOfType(preferences, u, "budget")) = 1
         /\ \E i \in EntriesOfType(preferences, u, "budget") :
              /\ preferences[u][i].value = Num(75)
              /\ preferences[u][i].created_at < preferences[u][i].last_updated

\* C5: after add_meal_history every user's list has at most HistoryCap (50)
\* entries and the new entry is the last one; a call made with 50 entries
\* stored drops the oldest and keeps the other 49 in their order.
C5_HistoryCap ==
    [][\A u \in Users, plan \in SamplePlans :
          AddMealHistory(u, plan, None) =>
              LET old == DictGet(meal_history, u, <<>>)
                  new == meal_history'[u]
              IN  /\ \A w \in DOMAIN meal_history' : Len(meal_history'[w]) <= HistoryCap
                  /\ Len(new) >= 1
                  /\ new[Len(new)] = [user_id |-> u, meal_plan |-> plan, date |-> clock,
                                      feedback |-> None]
                  /\ Len(old) = HistoryCap =>
                        /\ Len(new) = HistoryCap
                        /\ \A i \in 1 .. (HistoryCap - 1) : new[i] = old[i + 1]
                  /\ Len(old) < HistoryCap =>
                        /\ Len(new) = Len(old) + 1
                        /\ \A i \in 1 .. Len(old) : new[i] = old[i]
      ]_vars

\* C5 witness: an add was made with 50 entries stored; the oldest (tagged 1) is gone
C5_Witness ==
    /\ ret.op = "add_meal_history"
    /\ "u1" \in DOMAIN meal_history
    /\ Len(meal_history["u1"]) = HistoryCap
    /\ meal_history["u1"][1].meal_plan = PastPlan(2)
    /\ meal_history["u1"][HistoryCap].meal_plan \in SamplePlans


\* C11: after every add_preference write for user u, get_preferences(u) and
\* get_user_context(u)['preferences'] map the written type to the written
\* value, every other type to the value it had (the last one written for it),
\* and hold no other type; get_preference(u, t) returns the same value for each
\* of these types and None for a type never written; no other user changes.
C11_LastWritePerType ==
    [][\A u \in Users, t \in PreferenceTypes, v \in PreferenceValues :
          AddPreference(u, t, v) =>
              LET before == get_preferences(preferences, u)
                  after == get_preferences(preferences', u)
              IN  /\ DOMAIN after = DOMAIN before \cup {t}
                  /\ after[t] = v
                  /\ \A other \in DOMAIN before \ {t} : after[other] = before[other]
                  /\ get_user_context(preferences', meal_history', u).preferences = after
                  /\ \A any \in PreferenceTypes \cup {"cuisine_preferences"} :
                        get_preference(preferences', u, any)
                            = IF any \in DOMAIN after THEN after[any] ELSE None
                  /\ \A w \in Users \ {u} :
                        get_preferences(preferences', w) = get_preferences(preferences, w)
      ]_vars

\* C11 witness: u1's stored 'budget' 50 was loaded, then 'dietary_restriction'
\* was written, then 'budget' was written as 75: both reads give the last
\* values and 'cuisine_preferences', never written, is absent
C11_Witness ==
    /\ ret.op = "add_preference"
    /\ calls = 2
    /\ DOMAIN get_preferences(preferences, "u1") = {"budget", "dietary_restriction"}
    /\ get_preferences(preferences, "u1")["budget"] = Num(75)
    /\ get_preference(preferences, "u1", "budget") = Num(75)
    /\ get_user_context(preferences, meal_history, "u1").preferences["dietary_restriction"]
           = Num(50)
    /\ preferences["u1"][1].preference_type = "budget"
    /\ preferences["u1"][1].created_at < preferences["u1"][2].created_at
    /\ preferences["u1"][2].created_at < preferences["u1"][1].last_updated
    /\ get_preference(preferences, "u1", "cuisine_preferences") = None

-----------------------------------------------------------------------------
(* Claims about the end of plan_meals, checked under SpecFlow.               *)

\* the step that ends a plan_meals call whose recipe finder has returned
PersistenceStep ==
    /\ workflow.pc = "finding"
    /\ finder.pc = "returned"
    /\ workflow'.pc # "finding"

\* C12: a write of the file that fails during the persistence step, or a
\* session that has expired or was deleted by the time its context is updated,
\* does not keep plan_meals from returning the result it computed, and the
\* memory bank holds the new entries in memory and can be read afterwards:
\* the plan is the last entry of the user's history, the last restriction and
\* the cuisine preferences of the call are the stored values of their types.
C12_PersistenceFailuresAbsorbed ==
    [][PersistenceStep =>
          LET request == workflow.request
              user_id == workflow.user_id
              last == get_meal_history(meal_history', user_id, 1)
          IN  /\ workflow'.pc = "returned"
              /\ "result" \in DOMAIN ret'
              /\ ret'.result.meal_plan = workflow.meal_plan
              /\ ret'.result.recipes = finder.result
              /\ ret'.result.session_id = request.session_id
              /\ Len(last) = 1
              /\ last[1].meal_plan = workflow.meal_plan
              /\ Len(DictGet(meal_history', user_id, <<>>))
                    = Len(DictGet(meal_history, user_id, <<>>)) + 1
              /\ Truthy(request.dietary_restrictions) =>
                    get_preference(preferences', user_id, "dietary_restriction")
                        = request.dietary_restrictions.list[
                              Len(request.dietary_restrictions.list)]
              /\ Truthy(request.preferences) =>
                    get_preference(preferences', user_id, "cuisine_preferences")
                        = request.preferences
              /\ \A i, j \in 1 .. Len(DictGet(preferences', user_id, <<>>)) :
                    preferences'[user_id][i].preference_type
                        = preferences'[user_id][j].preference_type => i = j
    ]_vars

\* a call has returned though a write of the file failed and the session was
\* gone when its context was to be updated
C12_Witness ==
    /\ workflow.pc = "returned"
    /\ faults > 0
    /\ workflow.request.session_id \notin DOMAIN sessions
    /\ disk # Snapshot(preferences, meal_history)
    /\ ret.result.meal_plan = workflow.meal_plan
    /\ Len(DictGet(meal_history, workflow.user_id, <<>>)) > 0

-----------------------------------------------------------------------------
(* Claims about constructing a MemoryBank, checked under SpecLoad.           *)

\* C13: a MemoryBank constructed on a file that is missing, unreadable or
\* corrupt, a file with a valid first part and a malformed later part
\* included, has no preferences and no meal history for any user.
C13_BadFileLoadsEmpty ==
    (ret.op = "construct" /\ NotLoadable(disk)) =>
        /\ preferences = EmptyDict
        /\ meal_history = EmptyDict

-----------------------------------------------------------------------------
(* Further claims about the session store, checked under SpecSess.           *)

\* the call on sid left it out of the store and every other session as it was
OnlyGone(sid) ==
    /\ sid \notin DOMAIN sessions'
    /\ \A other \in DOMAIN sessions \ {sid} :
          other \in DOMAIN sessions' /\ sessions'[other] = sessions[other]
    /\ DOMAIN sessions' \subseteq DOMAIN sessions

\* C14: get_session, update_session_context, update_preferences and
\* delete_session on a session id that was never created, was deleted or has
\* expired return None or False, do not bring the session back and change no
\* other stored session.
C14_AbsentOrExpiredNotFound ==
    [][\A sid \in SessionIds :
          NotResolvable(sessions, sid, clock) =>
              /\ (ret'.op = "get_session" /\ GetSession(sid)) =>
                    (ret'.result = None /\ OnlyGone(sid))
              /\ \A c \in ContextUpdates :
                    (ret'.op = "update_session_context" /\ UpdateSessionContext(sid, c)) =>
                        (ret'.result = FALSE /\ OnlyGone(sid))
              /\ \A p \in PreferenceUpdates :
                    (ret'.op = "update_preferences" /\ UpdatePreferences(sid, p)) =>
                        (ret'.result = FALSE /\ OnlyGone(sid))
              /\ (ret'.op = "delete_session" /\ DeleteSession(sid)) =>
                    (ret'.result = FALSE /\ OnlyGone(sid))
    ]_vars

\* C15: whatever is called on the session store, the last_accessed of a
\* session that stays stored never decreases, and the last_accessed of every
\* stored session is never earlier than its created_at.
C15_LastAccessedMonotone ==
    [][/\ \A sid \in DOMAIN sessions \cap DOMAIN sessions' :
            /\ sessions'[sid].last_accessed >= sessions[sid].last_accessed
            /\ sessions'[sid].created_at = sessions[sid].created_at
       /\ \A sid \in DOMAIN sessions' :
            sessions'[sid].last_accessed >= sessions'[sid].created_at
    ]_vars

\* a session accessed after time has passed since an earlier access that
\* itself came after its creation
C15_Witness ==
    /\ ret.op = "update_preferences"
    /\ ret.result = TRUE
    /\ \E sid \in DOMAIN sessions :
          /\ sessions[sid].last_accessed = clock
          /\ sessions[sid].last_accessed - sessions[sid].created_at > SessionTimeout

\* C16: update_session_context on a live session sets each key of the mapping
\* in the session's context, leaves the other context keys, the preferences
\* and the other sessions as they were, sets last_accessed to the current
\* time and returns True; a get_session that follows returns a context with
\* the written values.
C16_ContextUpdateMerges ==
    [][\A sid \in DOMAIN sessions, c \in ContextUpdates :
          (/\ ret'.op = "update_session_context"
           /\ ~NotResolvable(sessions, sid, clock)
           /\ UpdateSessionContext(sid, c)) =>
              LET old == sessions[sid]
                  new == sessions'[sid]
                  got == get_session(sessions', sid, clock').result
              IN  /\ ret'.result = TRUE
                  /\ DOMAIN new.context = DOMAIN old.context \cup DOMAIN c
                  /\ \A k \in DOMAIN c : new.context[k] = c[k]
                  /\ \A k \in DOMAIN old.context \ DOMAIN c : new.context[k] = old.context[k]
                  /\ new.preferences = old.preferences
                  /\ new.user_id = old.user_id
                  /\ new.created_at = old.created_at
                  /\ new.last_accessed = clock
                  /\ \A other \in DOMAIN sessions \ {sid} :
                        other \in DOMAIN sessions' /\ sessions'[other] = sessions[other]
                  /\ got # None
                  /\ \A k \in DOMAIN c : got.context[k] = c[k]
    ]_vars

\* a context update on a live session that had a context key of its own and
\* preferences, after time has passed since its creation
C16_Witness ==
    /\ ret.op = "update_session_context"
    /\ ret.result = TRUE
    /\ \E sid \in DOMAIN sessions :
          /\ sessions[sid].context = [user_context |-> Str("ctx"), test |-> Str("other")]
          /\ sessions[sid].preferences = [budget |-> Num(50)]
          /\ sessions[sid].last_accessed = clock
          /\ sessions[sid].last_accessed > sessions[sid].created_at

-----------------------------------------------------------------------------
(* Claims about OrchestratorAgent.update_preferences, checked under SpecOrch. *)

\* the step is the call update_preferences(sid, prefs) of the orchestrator
OrchestratorUpdateCalled(sid, prefs) ==
    /\ ret'.op = "orchestrator_update_preferences"
    /\ OrchestratorUpdatePreferences(sid, prefs)

\* C17: update_preferences of the orchestrator on an absent or expired session
\* returns False and leaves the preference store and the file as they were;
\* of the session store it changes nothing but for removing the session
\* itself when it was stored and expired.  On a live session it merges the
\* mapping into the session's preferences, stores every key of the mapping as
\* the value of that type for the session's user, one entry per type, leaves
\* the user's other types and the other users as they were, and returns True.
C17_UpdatePreferences ==
    [][\A sid \in SessionIds, prefs \in OrchestratorPreferences :
          OrchestratorUpdateCalled(sid, prefs) =>
              IF NotResolvable(sessions, sid, clock)
              THEN /\ ret'.result = FALSE
                   /\ preferences' = preferences
                   /\ disk' = disk
                   /\ sessions' = [other \in DOMAIN sessions \ {sid} |-> sessions[other]]
              ELSE LET user_id == sessions[sid].user_id
                       before == get_preferences(preferences, user_id)
                       after == get_preferences(preferences', user_id)
                   IN  /\ ret'.result = TRUE
                       /\ sessions'[sid].preferences
                             = DictUpdate(sessions[sid].preferences, prefs)
                       /\ sessions'[sid].context = sessions[sid].context
                       /\ sessions'[sid].last_accessed = clock
                       /\ \A other \in DOMAIN sessions \ {sid} :
                             other \in DOMAIN sessions' /\ sessions'[other] = sessions[other]
                       /\ after = DictUpdate(before, prefs)
                       /\ \A key \in DOMAIN prefs :
                             /\ get_preference(preferences', user_id, key) = prefs[key]
                             /\ Cardinality(EntriesOfType(preferences', user_id, key)) = 1
                       /\ Len(preferences'[user_id]) = Cardinality(DOMAIN after)
                       /\ \A w \in DOMAIN preferences \ {user_id} :
                             preferences'[w] = preferences[w]
    ]_vars

\* an update of two keys on a live session of a user with stored preferences:
\* the stored restriction is overwritten, the stored cuisines stay
C17_Witness ==
    /\ ret.op = "orchestrator_update_preferences"
    /\ ret.result = TRUE
    /\ \E sid \in DOMAIN sessions :
          /\ sessions[sid].user_id = "u1"
          /\ sessions[sid].preferences
                = [budget |-> Num(50), dietary_restriction |-> Str("vegan")]
          /\ get_preferences(preferences, "u1")
                = [budget |-> Num(50), dietary_restriction |-> Str("vegan"),
                   cuisine_preferences |-> List(<<Str("Italian")>>)]
          /\ Len(preferences["u1"]) = 3
          /\ sessions[sid].last_accessed > sessions[sid].created_at

\* C17 as stated: on an absent or expired session the call returns False and
\* changes neither the session store nor the preference store.
C17_AbsentLeavesStores ==
    [][\A sid \in SessionIds, prefs \in OrchestratorPreferences :
          (OrchestratorUpdateCalled(sid, prefs) /\ NotResolvable(sessions, sid, clock)) =>
              /\ ret'.result = FALSE
              /\ sessions' = sessions
              /\ preferences' = preferences
    ]_vars

-----------------------------------------------------------------------------
(* Claims about reading the meal history, checked under SpecRead.            *)

\* C18: get_meal_history(user, limit) with limit >= 0 returns at most limit
\* entries: the last min(limit, n) of the user's n stored entries in the
\* order of insertion, and nothing for a user without history.
C18_AtMostLimitNewest ==
    (ret.op = "get_meal_history") =>
        LET history == DictGet(meal_history, ret.user_id, <<>>)
            n == Len(history)
            m == IF ret.limit < n THEN ret.limit ELSE n
        IN  /\ Len(ret.result) <= ret.limit
            /\ ret.result = SubSeq(history, n - m + 1, n)

-----------------------------------------------------------------------------
(* Claims about listing the sessions of a user, checked under SpecSess.      *)

\* C19: get_user_sessions returns only active sessions of one user: no
\* session in its result has been idle for longer than the timeout, an
\* expired session that nothing has removed yet included.
C19_OnlyActiveSessionsListed ==
    (ret.op = "get_user_sessions") =>
        /\ \A session \in ret.result : ~IsExpired(session, clock)
        /\ \A one, other \in ret.result : one.user_id = other.user_id

-----------------------------------------------------------------------------
(* Claims about what the planner is called with, checked under SpecFlow.     *)

\* C20: the restrictions and the cuisine preferences the planner plans with
\* are the stored preferences of the user overlaid by the arguments of the
\* call: what the call gives is used, and where the call gives none and the
\* user has a stored value, the planner is given restrictions (cuisine
\* preferences) that hold the stored value.
C20_StoredPreferencesOverlaid ==
    (workflow.pc = "planning" /\ planner.pc # "idle") =>
        LET request == workflow.request
            stored == get_preferences(preferences, workflow.user_id)
        IN  /\ request.dietary_restrictions # None =>
                  planner.dietary_restrictions = request.dietary_restrictions
            /\ request.preferences # None =>
                  planner.preferences = request.preferences
            /\ (request.dietary_restrictions = None
                    /\ "dietary_restriction" \in DOMAIN stored) =>
                  /\ planner.dietary_restrictions # None
                  /\ In(stored["dietary_restriction"], planner.dietary_restrictions)
            /\ (request.preferences = None /\ "cuisine_preferences" \in DOMAIN stored) =>
                  planner.preferences = stored["cuisine_preferences"]

-----------------------------------------------------------------------------
(* Claims about the planner, checked under SpecPlanner.                      *)

\* the plan is one that _generate_mock_meal_plan made
IsMockPlan(plan) ==
    /\ IsDict(plan)
    /\ "summary" \in DOMAIN plan
    /\ \E days \in 1 .. 2 :
          plan.summary = Format("Generated {}-day meal plan with {} meals", <<days, 3 * days>>)

\* the step that hands the plan of a call to its caller
PlannerReturned ==
    /\ planner.pc = "returned"
    /\ planner'.pc = "idle"

\* C21: the fallback plan is deterministic: a planner call that returns a
\* fallback plan returns the plan that the call before it returned, when that
\* was a fallback plan for the same days, restrictions and cuisine
\* preferences.
C21_FallbackDeterministic ==
    [][(/\ PlannerReturned
        /\ ret.op = "planner_plan_meals"
        /\ ret'.days = ret.days
        /\ ret'.dietary_restrictions = ret.dietary_restrictions
        /\ ret'.preferences = ret.preferences
        /\ IsMockPlan(ret.result)
        /\ IsMockPlan(ret'.result)) =>
           ret'.result = ret.result
    ]_vars

\* the join of the model thread timed out: the call goes on, the thread lives
JoinTimedOut ==
    /\ planner.pc = "joining"
    /\ planner'.pc = "returned"
    /\ planner'.threads = planner.threads

\* a model thread ends that no call is joining
LateCompletion ==
    /\ planner'.threads < planner.threads
    /\ planner'.pc = planner.pc

\* C22: when the model call has not completed within the join timeout,
\* plan_meals goes on with the locally generated plan for its arguments while
\* the model thread is still running; a model thread that ends later changes
\* neither the plan in hand, nor the plan already returned, nor the state of
\* a later call that is waiting for its own model thread.
C22_TimeoutFallbackLateResultDiscarded ==
    [][/\ JoinTimedOut =>
            /\ IsMockPlan(planner'.result)
            /\ planner'.result.dietary_restrictions
                  = (IF Truthy(planner.dietary_restrictions)
                     THEN planner.dietary_restrictions ELSE List(<<>>))
            /\ planner'.threads > 0
            /\ ret' = ret
       /\ LateCompletion =>
            /\ planner' = [planner EXCEPT !.threads = planner.threads - 1]
            /\ ret' = ret
    ]_vars

\* a call that timed out has returned its fallback plan, its model thread is
\* still running, and a later call is waiting for a model thread of its own
C22_Witness ==
    /\ ret.op = "planner_plan_meals"
    /\ IsMockPlan(ret.result)
    /\ planner.pc = "joining"
    /\ planner.threads = 2

-----------------------------------------------------------------------------
(* Claims about the end of find_recipes_for_meals, checked under             *)
(* SpecFinderLive.                                                           *)

\* C23: find_recipes_for_meals always eventually returns, also when the
\* lookup of some meal never completes: a call that is waiting for lookups
\* leads to a call that has returned (or raised).
C23_FinderEventuallyReturns ==
    (finder.pc = "running") ~> (finder.pc \in {"returned", "raised"})

-----------------------------------------------------------------------------
(* Claims about the order of the steps of plan_meals, checked under SpecFlow *)

\* the rank of a step in the order of plan_meals
StepRank(step) ==
    CASE step = "planner" -> 1
      [] step = "recipe_finder" -> 2
      [] step = "shopping_list" -> 3
      [] step = "nutrition" -> 4
      [] step = "update_session_context" -> 5
      [] step = "add_meal_history" -> 6
      [] step = "add_preference" -> 7

\* a step that writes the session context, the history, the preferences or the file
StoresWritten ==
    \/ meal_history' # meal_history
    \/ preferences' # preferences
    \/ disk' # disk
    \/ \E sid \in DOMAIN sessions \cap DOMAIN sessions' :
         sessions'[sid].context # sessions[sid].context

\* C24: within one plan_meals call the steps come in a fixed order: the planner
\* is started first and has returned before any recipe lookup starts; every
\* lookup has completed before the shopping list or the nutrition analysis is
\* made; the session context, the history and the preferences are written only
\* after the finder and every worker step asked for have produced their output.
C24_StepsInFixedOrder ==
    [][/\ (planner.pc = "idle" /\ planner'.pc # "idle") =>
             /\ workflow.pc = "idle"
             /\ finder.pc = "idle" /\ finder'.pc = "idle"
             /\ workflow'.steps = <<"planner">>
       /\ (finder.pc = "idle" /\ finder'.pc # "idle") =>
             /\ planner.pc = "returned" /\ planner'.pc = "idle"
             /\ workflow'.meal_plan = planner.result
             /\ workflow'.steps = <<"planner", "recipe_finder">>
       /\ (StoresWritten \/ (workflow.pc # "returned" /\ workflow'.pc = "returned")) =>
             /\ planner.pc = "idle"
             /\ finder.pc = "returned"
             /\ DOMAIN finder.futures = 1 .. Len(finder.meals)
             /\ workflow.steps = <<"planner", "recipe_finder">>
       /\ (workflow.pc # "returned" /\ workflow'.pc = "returned") =>
             LET steps == workflow'.steps
                 request == workflow.request
             IN  /\ \A i, j \in 1 .. Len(steps) :
                       i < j => /\ StepRank(steps[i]) <= StepRank(steps[j])
                                /\ StepRank(steps[i]) < 7 =>
                                      StepRank(steps[i]) < StepRank(steps[j])
                 /\ request.include_shopping_list <=>
                       \E i \in 1 .. Len(steps) : steps[i] = "shopping_list"
                 /\ request.include_nutrition <=>
                       \E i \in 1 .. Len(steps) : steps[i] = "nutrition"
                 /\ \A step \in {"update_session_context", "add_meal_history"} :
                       \E i \in 1 .. Len(steps) : steps[i] = step
                 /\ ret'.result.shopping_list # None <=> request.include_shopping_list
                 /\ ret'.result.nutrition # None <=> request.include_nutrition
      ]_vars

\* a call that asked for both the shopping list and the nutrition analysis has
\* returned after every step, with its plan in the history
C24_Witness ==
    /\ workflow.pc = "returned"
    /\ workflow.steps = <<"planner", "recipe_finder", "shopping_list", "nutrition",
                          "update_session_context", "add_meal_history">>
    /\ ret.op = "plan_meals"
    /\ "u1" \in DOMAIN meal_history
    /\ Len(meal_history["u1"]) = 1

\* the plan_meals call returns its result at this step
PlanMealsReturns ==
    /\ workflow.pc = "finding"
    /\ workflow'.pc = "returned"

\* the history of the call's user is the one before with one entry added, which
\* holds the returned plan
OneEntryAppended ==
    LET user_id == workflow.user_id
        before == DictGet(meal_history, user_id, <<>>)
        after == DictGet(meal_history', user_id, <<>>)
    IN  /\ Len(after) = Len(before) + 1
        /\ SubSeq(after, 1, Len(before)) = before
        /\ after[Len(after)].meal_plan = ret'.result.meal_plan
        /\ after[Len(after)].user_id = user_id
        /\ \A u \in DOMAIN meal_history' \ {user_id} :
              u \in DOMAIN meal_history /\ meal_history'[u] = meal_history[u]

\* the session of the call is stored with the returned plan, recipe results
\* and shopping list in its context
ContextHoldsResult ==
    LET sid == workflow.request.session_id
    IN  /\ sid \in DOMAIN sessions'
        /\ {"last_meal_plan", "last_recipes", "last_shopping_list"}
              \subseteq DOMAIN sessions'[sid].context
        /\ sessions'[sid].context["last_meal_plan"] = ret'.result.meal_plan
        /\ sessions'[sid].context["last_recipes"] = ret'.result.recipes
        /\ sessions'[sid].context["last_shopping_list"] = ret'.result.shopping_list

\* C25 as stated: every plan_meals call that returns a result has appended
\* exactly one history entry for the session's user, holding the returned plan,
\* and leaves the session context with last_meal_plan, last_recipes and
\* last_shopping_list equal to the plan, the recipe results and the shopping
\* list of the returned result.
C25_HistoryAndContextHoldResult ==
    [][PlanMealsReturns => (OneEntryAppended /\ ContextHoldsResult)]_vars

\* C25 with the session's life taken into account: the history entry is
\* appended by every call that returns; the context holds the returned plan,
\* recipe results and shopping list if the session is still stored and not
\* expired when the context is updated, and if it is not, the session is not
\* in the store after the call.
C25_HistoryAlwaysContextIfLive ==
    [][PlanMealsReturns =>
          /\ OneEntryAppended
          /\ IF NotResolvable(sessions, workflow.request.session_id, clock)
             THEN workflow.request.session_id \notin DOMAIN sessions'
             ELSE /\ ContextHoldsResult
                  /\ sessions'[workflow.request.session_id].last_accessed = clock
      ]_vars

\* a call has returned a plan with a shopping list; the plan is the user's
\* only history entry and the session's context holds plan, recipes and list
C25_Witness ==
    /\ workflow.pc = "returned"
    /\ ret.op = "plan_meals"
    /\ ret.result.shopping_list # None
    /\ Len(meal_history["u1"]) = 1
    /\ meal_history["u1"][1].meal_plan = ret.result.meal_plan
    /\ 1 \in DOMAIN sessions
    /\ "last_meal_plan" \in DOMAIN sessions[1].context
    /\ sessions[1].context["last_meal_plan"] = ret.result.meal_plan
    /\ sessions[1].context["last_recipes"] = ret.result.recipes
    /\ sessions[1].context["last_shopping_list"] = ret.result.shopping_list

-----------------------------------------------------------------------------
(* Claims about concurrent callers of the memory bank, checked under SpecRace *)

\* the callers that made the call op, all of them done
Done(op) == {c \in Callers : workflow[c].pc = "done" /\ workflow[c].op = op}

\* C26: mutations of the preference and history store are serialized per
\* record.  When all callers have returned: if any called add_preference for
\* ("u1", "budget"), the store holds exactly one entry of that type for u1 and
\* its value is one of the values written; every plan a caller added with
\* add_meal_history is in u1's history exactly once (two appends to a history
\* of 49 evict only the oldest entry).
C26_MutationsSerialized ==
    (\A c \in Callers : workflow[c].pc = "done") =>
        /\ Done("add_preference") # {} =>
              LET prefs == preferences["u1"]
                  found == {i \in 1 .. Len(prefs) : prefs[i].preference_type = "budget"}
              IN  /\ Cardinality(found) = 1
                  /\ \A i \in found :
                        prefs[i].value \in {workflow[c].value : c \in Done("add_preference")}
        /\ \A c \in Done("add_meal_history") :
              Cardinality({i \in 1 .. Len(meal_history["u1"]) :
                              meal_history["u1"][i].meal_plan = PlanOf(c)}) = 1

-----------------------------------------------------------------------------
(* Claims about concurrent callers of the session service, checked under    *)
(* SpecGet                                                                  *)

\* C27: the expiry check and the refresh of get_session are atomic per call:
\* whenever a get_session call returns a session, that session is in the
\* store at the moment of the return (no other caller's get_session or
\* cleanup_expired_sessions has judged it expired and removed it), with the
\* last_accessed the call has just written.
C27_ReturnedSessionIsStored ==
    [][\A c \in Callers :
          (workflow[c].pc = "get_refresh" /\ workflow'[c].pc = "idle") =>
              /\ ret'.result # None
              /\ 1 \in DOMAIN sessions'
              /\ sessions'[1] = ret'.result
      ]_vars

-----------------------------------------------------------------------------
(* Claims about cleanup_expired_sessions, checked under SpecSweep           *)

\* C28: cleanup_expired_sessions removes exactly the sessions whose idle time
\* exceeds the timeout at the moment of the call, returns how many it removed
\* and leaves every other session stored with context, preferences and
\* last_accessed as they were.  A session leaves the store only in a
\* cleanup_expired_sessions call that finds it expired, in a delete_session
\* call, or when get_session finds it expired (in a get_session call or in the
\* get_session that update_session_context and update_preferences make);
\* time that passes removes nothing.
C28_SweepRemovesExactlyExpired ==
    [][/\ ret'.op = "cleanup_expired_sessions" =>
             LET expired == {sid \in DOMAIN sessions :
                                clock - sessions[sid].last_accessed > SessionTimeout}
             IN  /\ DOMAIN sessions' = DOMAIN sessions \ expired
                 /\ ret'.result = Cardinality(expired)
                 /\ \A sid \in DOMAIN sessions' : sessions'[sid] = sessions[sid]
       /\ \A sid \in DOMAIN sessions \ DOMAIN sessions' :
             \/ ret'.op = "delete_session"
             \/ /\ ret'.op \in {"cleanup_expired_sessions", "get_session",
                                "update_session_context", "update_preferences"}
                /\ clock - sessions[sid].last_accessed > SessionTimeout
       /\ ret'.op = "tick" => sessions' = sessions
      ]_vars

\* a sweep has removed the session of u1, idle for longer than the timeout, and
\* has left the session of u2, which was read in between, as it was
C28_Witness ==
    /\ ret.op = "cleanup_expired_sessions"
    /\ ret.result = 1
    /\ DOMAIN sessions = {2}
    /\ sessions[2].user_id = "u2"
    /\ sessions[2].last_accessed > 0
    /\ clock - sessions[2].last_accessed <= SessionTimeout
    /\ "user_context" \in DOMAIN sessions[2].context

-----------------------------------------------------------------------------
(* Claims about the file of the memory bank, checked under SpecWrite        *)

\* C29: the file is written through and holds a complete snapshot: after an
\* add_preference or add_meal_history call whose write of the file succeeded,
\* a MemoryBank constructed on the same path holds, for every user, the same
\* preference types with the same values and the same history entries in the
\* same order as the bank that wrote the file.
C29_ReloadHoldsSameState ==
    [][(/\ ret'.op \in {"add_preference", "add_meal_history"}
        /\ disk' = Snapshot(preferences', meal_history')) =>
          LET loaded == load_from_disk(disk')
          IN  /\ DOMAIN loaded.preferences = DOMAIN preferences'
              /\ \A u \in DOMAIN preferences' :
                    get_preferences(loaded.preferences, u) = get_preferences(preferences', u)
              /\ loaded.meal_history = meal_history'
      ]_vars

-----------------------------------------------------------------------------
(* Claims about the fallback plans of the planner, checked under SpecPlanner *)

\* C30: every fallback plan that MealPlannerAgent.plan_meals returns for a call
\* with the restrictions R honours R, whichever path led to the fallback (no
\* model, timeout, model error, empty response, unparseable response): every
\* meal name is in the pool that R selects for its meal type (the vegan pool
\* if 'vegan' is in R, else the vegetarian pool if 'vegetarian' is in R) and
\* the dietary_restrictions field of the plan is R (the empty list for no R).
C30_FallbackHonoursRestrictions ==
    (ret.op = "planner_plan_meals" /\ IsMockPlan(ret.result)) =>
        LET R == ret.dietary_restrictions
            meals == ret.result.meals.list
        IN  /\ ret.result.dietary_restrictions = (IF Truthy(R) THEN R ELSE List(<<>>))
            /\ \A i \in 1 .. Len(meals) :
                  LET pool == selected_meals(R)[meals[i].meal_type.str]
                  IN  \E k \in 1 .. Len(pool) : pool[k] = meals[i].name.str

=============================================================================
